---- MODULE Spec2Model ----
(***************************************************************************)
(* A model of the tree-explorer stores: BinaryTreeNode / AbstractTree,     *)
(* NaiveTree, RedBlackTree and the explanation channel of                  *)
(* ApplicationStore.                                                       *)
(*                                                                         *)
(* The node graph is a heap: a sequence of cells addressed by index, with  *)
(* NULL for the null reference.  Every async function of the source is a   *)
(* frame kind; a frame's pc names the await it is suspended at.  One       *)
(* action runs one task from the resolution of the promise it awaits to    *)
(* its next await (JavaScript runs that stretch without interruption).     *)
(***************************************************************************)
EXTENDS Integers, Sequences, FiniteSets, TLC

VARIABLES
    heap,                \* the BinaryTreeNode objects
    root,                \* AbstractTree.root
    size,                \* AbstractTree.size
    numOperations,       \* AbstractTree.numOperations
    variant,             \* which subclass of AbstractTree the tree is
    tasks,               \* the async call chains: the operation and detached calls
    timers,              \* pending setTimeout callbacks, in firing order
    explaining,          \* ApplicationStore.explaining
    explanationPromise,  \* ApplicationStore.explanationPromise
    explanationTitle,    \* ApplicationStore.explanationTitle
    explanationTerminal, \* ApplicationStore.explanationTerminal
    items,               \* ApplicationStore.items
    treeOperating,       \* ApplicationStore.treeOperating
    yielded,             \* values a direct caller has received from a traversal
    issued,              \* titles of the traversal steps issued since the last call began
    highlightedNodes,    \* AbstractTree.highlightedNodes
    highlightColour,     \* the nodes whose renderProps.highlightColour is not null
    op                   \* the call in flight, with what its caller knew when making it

vars == <<heap, root, size, numOperations, variant, tasks, timers, explaining,
          explanationPromise, explanationTitle, explanationTerminal, items,
          treeOperating, yielded, issued, highlightedNodes, highlightColour, op>>

----------------------------------------------------------------------------
(* Bounds *)

MaxVal == 4
MaxSize == 4
MaxNumOperations == 3
MaxTasks == 3

Values == 1..MaxVal
TaskIds == 1..MaxTasks

----------------------------------------------------------------------------
(* BinaryTreeNode *)

NULL == 0
MAIN == 1
RED == "red"
BLACK == "black"

Min(a, b) == IF a < b THEN a ELSE b

\* A node whose value is null: a null terminator, without children.  Its
\* parent field is never read by any operation and is not kept.
NullNode == [value |-> NULL, colour |-> BLACK, parent |-> NULL,
             leftChild |-> NULL, rightChild |-> NULL]

\* new BinaryTreeNode(value, colour): the heap with the node appended, and
\* two null terminators as its children when it holds a value.  The new
\* node's reference is Len(h) + 1.
NewNode(h, value, colour) ==
    LET id == Len(h) + 1 IN
    IF value # NULL
    THEN h \o << [value |-> value, colour |-> colour, parent |-> NULL,
                  leftChild |-> id + 1, rightChild |-> id + 2],
                 NullNode, NullNode >>
    ELSE Append(h, NullNode)

IsNull(h, n) == h[n].value = NULL

\* No assignment to parent takes effect.
SetNoParent(h, n, p) == h

\* n.parent = p; on a null terminator the field is not kept.
SetParent(h, n, p) == IF IsNull(h, n) THEN h ELSE [h EXCEPT ![n].parent = p]

grandparent(h, n) == IF h[n].parent = NULL THEN NULL ELSE h[h[n].parent].parent

sibling(h, n) ==
    IF h[n].parent = NULL THEN NULL
    ELSE IF h[h[n].parent].leftChild = n THEN h[h[n].parent].rightChild
    ELSE h[h[n].parent].leftChild

ommer(h, n) == IF grandparent(h, n) = NULL THEN NULL ELSE sibling(h, h[n].parent)

isLeaf(h, n) ==
    /\ h[n].leftChild # NULL  /\ IsNull(h, h[n].leftChild)
    /\ h[n].rightChild # NULL /\ IsNull(h, h[n].rightChild)

\* Not the minimum: the node itself.
minChildSelf(h, n) == n

RECURSIVE minChild(_, _)
minChild(h, n) ==
    IF h[n].leftChild # NULL /\ ~IsNull(h, h[n].leftChild)
    THEN minChild(h, h[n].leftChild)
    ELSE n

\* A makeNull that leaves the children in place.
makeNullKeepingChildren(h, n) == [h EXCEPT ![n].value = NULL, ![n].colour = BLACK]

makeNull(h, n) == [h EXCEPT ![n] = NullNode]

isLeftChild(h, n) == h[n].parent # NULL /\ n = h[h[n].parent].leftChild

isRightChild(h, n) == h[n].parent # NULL /\ n = h[h[n].parent].rightChild

----------------------------------------------------------------------------
(* Reading the graph *)

RECURSIVE Visit(_, _, _)
\* The nodes reachable from n through child links, in pre-order, appended to
\* acc; a node already in acc is not entered again.
Visit(h, n, acc) ==
    IF n = NULL \/ \E i \in 1..Len(acc) : acc[i] = n
    THEN acc
    ELSE Visit(h, h[n].rightChild, Visit(h, h[n].leftChild, Append(acc, n)))

Range(s) == { s[i] : i \in 1..Len(s) }

Reachable(h, r) == Range(Visit(h, r, <<>>))

RealNodes(h, r) == { n \in Reachable(h, r) : ~IsNull(h, n) }

ValuesIn(h, r) == { h[n].value : n \in RealNodes(h, r) }

RECURSIVE Walk(_, _, _)
\* The values under n, left subtree first, then n, then the right subtree;
\* fuel bounds the depth, so that a malformed graph still has a reading.
Walk(h, n, fuel) ==
    IF n = NULL \/ fuel = 0 THEN <<>>
    ELSE IF IsNull(h, n) THEN <<>>
    ELSE Walk(h, h[n].leftChild, fuel - 1) \o <<h[n].value>>
         \o Walk(h, h[n].rightChild, fuel - 1)

InOrderOf(h, r) == Walk(h, r, Len(h))

----------------------------------------------------------------------------
(* Frames and tasks *)

\* A frame of an async function: fn names the function, pc the await it
\* is at, node / n2 / n3 its node-valued locals, item and flag its others.
Frame(fn, node, n2, n3, item, flag) ==
    [fn |-> fn, pc |-> "entry", node |-> node, n2 |-> n2, n3 |-> n3,
     item |-> item, flag |-> flag]

NoTask == [stack |-> <<>>, wait |-> "none"]

\* The machine: every field an operation can write, and ret, the value the
\* last return handed to its caller.
Machine ==
    [heap |-> heap, root |-> root, size |-> size, numOperations |-> numOperations,
     variant |-> variant, tasks |-> tasks, timers |-> timers,
     explaining |-> explaining, explanationPromise |-> explanationPromise,
     explanationTitle |-> explanationTitle,
     explanationTerminal |-> explanationTerminal, items |-> items,
     treeOperating |-> treeOperating, yielded |-> yielded, issued |-> issued,
     highlightedNodes |-> highlightedNodes, highlightColour |-> highlightColour,
     op |-> op,
     ret |-> NULL]

Top(m, t) == m.tasks[t].stack[Len(m.tasks[t].stack)]

WithTop(m, t, f) ==
    LET s == m.tasks[t].stack IN
    [m EXCEPT !.tasks[t].stack = [s EXCEPT ![Len(s)] = f]]

Goto(m, t, pc) == WithTop(m, t, [Top(m, t) EXCEPT !.pc = pc])

\* await callee(...): the caller resumes at pc with the callee's result in ret.
Call(m, t, pc, callee) ==
    LET m1 == Goto(m, t, pc) IN
    [m1 EXCEPT !.tasks[t].stack = Append(@, callee)]

Return(m, t, v) ==
    [m EXCEPT !.tasks[t].stack = SubSeq(@, 1, Len(@) - 1), !.ret = v]

\* An uncaught TypeError: the promise of every caller up the chain rejects,
\* and no continuation of the chain runs again.
Throw(m, t) == [m EXCEPT !.tasks[t].wait = "thrown"]

Inc(n) == Min(n + 1, MaxNumOperations)

----------------------------------------------------------------------------
(* The explanation channel: ApplicationStore.explainStep, ExplanationPane *)

\* ApplicationStore.explainStep called by task t: the promise it returns is
\* resolved by ExplanationPane.nextStep through explanationPromise when
\* explaining, and by a timer otherwise.  A promise whose resolver is replaced
\* in explanationPromise before it was called can no longer be resolved: the
\* task awaiting it is "lost".
StoreExplainStep(m, t, title, terminal) ==
    LET m1 == [m EXCEPT !.explanationTitle = title,
                        !.explanationTerminal = terminal]
    IN  IF m.explaining
        THEN [m1 EXCEPT
                !.explanationPromise = t,
                !.tasks = [u \in TaskIds |->
                    IF u = t THEN [m.tasks[u] EXCEPT !.wait = "user"]
                    ELSE IF m.explanationPromise = u /\ m.tasks[u].wait = "user"
                         THEN [m.tasks[u] EXCEPT !.wait = "lost"]
                    ELSE m.tasks[u]]]
        ELSE [m1 EXCEPT !.timers = Append(@, t), !.tasks[t].wait = "timer"]

\* The titles of the steps of a traversal
TraversalSteps ==
    {"Add current node", "Traverse left child", "Traverse right child",
     "Traversal complete"}

\* ApplicationStore.renderNullNodes, the switch of the sidebar: on, so
\* that null terminators are highlighted as well.
renderNullNodes == TRUE

\* The constructor of HighlightNode, run for node when the pane renders a
\* message that names it
HighlightNode(m, node) ==
    IF node = NULL \/ ~(m.heap[node].value # NULL \/ renderNullNodes) THEN m
    ELSE [m EXCEPT !.highlightColour = @ \cup {node},
                   !.highlightedNodes = Append(@, node)]

\* The pane renders the message of a step: the messages name nodes the
\* issuing call holds, here the nodes of its frame f.
Highlight(m, f) == HighlightNode(HighlightNode(HighlightNode(m, f.node), f.n2), f.n3)

\* An explainStep that returns without touching the highlights.
UnhighlightNone(m) == m

\* AbstractTree.explainStep after its await: every node of highlightedNodes
\* has its highlightColour set to null, and the list is emptied.
Unhighlight(m) ==
    [m EXCEPT !.highlightColour = @ \ Range(m.highlightedNodes),
              !.highlightedNodes = <<>>]

\* await this.explainStep(title, message, terminal) in the frame on top of
\* task t, which resumes at pc.
ExplainStep(m, t, pc, title, terminal) ==
    LET m1 == Goto(m, t, pc)
        m2 == [m1 EXCEPT !.numOperations = Inc(@),
                         !.issued = IF title \in TraversalSteps
                                    THEN Append(@, title) ELSE @]
    IN  Highlight(StoreExplainStep(m2, t, title, terminal), Top(m, t))

\* AbstractTree.explainNavigation(item, node)
ExplainNavigation(m, t, pc, item, node) ==
    ExplainStep(m, t, pc,
                IF item < m.heap[node].value THEN "Navigate left" ELSE "Navigate right",
                FALSE)

----------------------------------------------------------------------------
(* AbstractTree: insertion *)

\* addRecursive(newNode, final, node): node is the frame's node, newNode its n2.
AddRecursive(m, t, f) ==
    LET h == m.heap
        newValue == h[f.n2].value
    IN  CASE f.pc = "entry" ->
               IF IsNull(h, f.node)
               THEN ExplainStep(m, t, "insert", "Insert node", f.flag)
               ELSE ExplainNavigation(m, t, "navigated", newValue, f.node)
          [] f.pc = "insert" -> Return(m, t, f.n2)
          [] f.pc = "navigated" ->
               IF newValue < h[f.node].value
               THEN Call(m, t, "left",
                         Frame("addRecursive", h[f.node].leftChild, f.n2, NULL, 0, f.flag))
               ELSE IF newValue > h[f.node].value
               THEN Call(m, t, "right",
                         Frame("addRecursive", h[f.node].rightChild, f.n2, NULL, 0, f.flag))
               ELSE Return(m, t, f.node)
          [] f.pc = "left" ->
               LET h1 == SetParent(h, m.ret, f.node)
                   h2 == [h1 EXCEPT ![f.node].leftChild = m.ret]
               IN  Return([m EXCEPT !.heap = h2], t, f.node)
          [] f.pc = "right" ->
               LET h1 == SetParent(h, m.ret, f.node)
                   h2 == [h1 EXCEPT ![f.node].rightChild = m.ret]
               IN  Return([m EXCEPT !.heap = h2], t, f.node)

\* addNodeNaive(newNode, final): newNode is the frame's node.
AddNodeNaive(m, t, f) ==
    CASE f.pc = "entry" ->
           Call(m, t, "added", Frame("addRecursive", m.root, f.node, NULL, 0, f.flag))
      [] f.pc = "added" ->
           Return([m EXCEPT !.root = m.ret,
                            !.heap = SetParent(m.heap, m.ret, NULL),
                            !.size = @ + 1,
                            !.numOperations = Inc(@)], t, NULL)

\* addItemNaive(item, colour, final): a node of the given colour holding the
\* item, added by addNodeNaive.
AddItemNaive(m, t, f) ==
    CASE f.pc = "entry" ->
           LET id == Len(m.heap) + 1 IN
           Call([m EXCEPT !.heap = NewNode(m.heap, f.item, BLACK)], t, "done",
                Frame("addNodeNaive", id, NULL, NULL, 0, f.flag))
      [] f.pc = "done" -> Return(m, t, NULL)

\* NaiveTree.addItem(item)
NaiveAddItem(m, t, f) ==
    CASE f.pc = "entry" ->
           Call(m, t, "done", Frame("addItemNaive", NULL, NULL, NULL, f.item, TRUE))
      [] f.pc = "done" -> Return(m, t, NULL)

----------------------------------------------------------------------------
(* RedBlackTree: rotations *)

\* A rotateLeft that leaves out its last re-link: neither the old parent's
\* child link nor the root is made to refer to the promoted node.
RotateLeftUnlinked(m, t, f) ==
    LET h == m.heap IN
    CASE f.pc = "entry" ->
           IF f.node = NULL \/ h[f.node].rightChild = NULL
           THEN Throw(m, t)
           ELSE ExplainStep(
                    WithTop(m, t, [f EXCEPT !.n2 = h[f.node].rightChild,
                                            !.n3 = h[f.node].parent]),
                    t, "promote", "Promote grandchild", FALSE)
      [] f.pc = "promote" ->
           LET h1 == [h EXCEPT ![f.node].rightChild = h[f.n2].leftChild]
               h2 == [h1 EXCEPT ![f.n2].leftChild = f.node]
               h3 == SetParent(h2, f.node, f.n2)
               c  == h3[f.node].rightChild
           IN  IF c = NULL
               THEN Throw([m EXCEPT !.heap = h3], t)
               ELSE ExplainStep([m EXCEPT !.heap = SetParent(h3, c, f.node)],
                                t, "under", "Rotate under right child", FALSE)
      [] f.pc = "under" ->
           ExplainStep([m EXCEPT !.heap = SetParent(h, f.n2, f.n3)],
                       t, "complete", "Rotation complete", FALSE)
      [] f.pc = "complete" -> Return(m, t, NULL)

\* rotateLeft(node): oldRight is the frame's n2, oldParent its n3.
RotateLeft(m, t, f) ==
    LET h == m.heap IN
    CASE f.pc = "entry" ->
           IF f.node = NULL \/ h[f.node].rightChild = NULL
           THEN Throw(m, t)
           ELSE ExplainStep(
                    WithTop(m, t, [f EXCEPT !.n2 = h[f.node].rightChild,
                                            !.n3 = h[f.node].parent]),
                    t, "promote", "Promote grandchild", FALSE)
      [] f.pc = "promote" ->
           LET h1 == [h EXCEPT ![f.node].rightChild = h[f.n2].leftChild]
               h2 == [h1 EXCEPT ![f.n2].leftChild = f.node]
               h3 == SetParent(h2, f.node, f.n2)
               c  == h3[f.node].rightChild
           IN  IF c = NULL
               THEN Throw([m EXCEPT !.heap = h3], t)
               ELSE ExplainStep([m EXCEPT !.heap = SetParent(h3, c, f.node)],
                                t, "under", "Rotate under right child", FALSE)
      [] f.pc = "under" ->
           LET h1 == IF f.n3 # NULL
                     THEN IF f.node = h[f.n3].leftChild
                          THEN [h EXCEPT ![f.n3].leftChild = f.n2]
                          ELSE [h EXCEPT ![f.n3].rightChild = f.n2]
                     ELSE h
               h2 == SetParent(h1, f.n2, f.n3)
           IN  ExplainStep([m EXCEPT !.heap = h2,
                                     !.root = IF f.n3 # NULL THEN @ ELSE f.n2],
                           t, "complete", "Rotation complete", FALSE)
      [] f.pc = "complete" -> Return(m, t, NULL)

\* A rotateRight that leaves the parent link of the promoted node as it was.
RotateRightKeepingParent(m, t, f) ==
    LET h == m.heap IN
    CASE f.pc = "entry" ->
           ExplainStep(WithTop(m, t, [f EXCEPT !.n2 = h[f.node].leftChild,
                                               !.n3 = h[f.node].parent]),
                       t, "promote", "Promote grandchild", FALSE)
      [] f.pc = "promote" ->
           LET h1 == [h EXCEPT ![f.node].leftChild = h[f.n2].rightChild]
               h2 == [h1 EXCEPT ![f.n2].rightChild = f.node]
               h3 == SetParent(h2, f.node, f.n2)
           IN  ExplainStep([m EXCEPT !.heap = SetParent(h3, h3[f.node].leftChild, f.node)],
                           t, "under", "Rotate under left child", FALSE)
      [] f.pc = "under" ->
           LET h1 == IF f.n3 # NULL
                     THEN IF f.node = h[f.n3].leftChild
                          THEN [h EXCEPT ![f.n3].leftChild = f.n2]
                          ELSE [h EXCEPT ![f.n3].rightChild = f.n2]
                     ELSE h
           IN  ExplainStep([m EXCEPT !.heap = h1,
                                     !.root = IF f.n3 # NULL THEN @ ELSE f.n2],
                           t, "complete", "Rotation complete", FALSE)
      [] f.pc = "complete" -> Return(m, t, NULL)

\* rotateRight(node): oldLeft is the frame's n2, oldParent its n3.
RotateRight(m, t, f) ==
    LET h == m.heap IN
    CASE f.pc = "entry" ->
           IF f.node = NULL \/ h[f.node].leftChild = NULL
           THEN Throw(m, t)
           ELSE ExplainStep(
                    WithTop(m, t, [f EXCEPT !.n2 = h[f.node].leftChild,
                                            !.n3 = h[f.node].parent]),
                    t, "promote", "Promote grandchild", FALSE)
      [] f.pc = "promote" ->
           LET h1 == [h EXCEPT ![f.node].leftChild = h[f.n2].rightChild]
               h2 == [h1 EXCEPT ![f.n2].rightChild = f.node]
               h3 == SetParent(h2, f.node, f.n2)
               c  == h3[f.node].leftChild
           IN  IF c = NULL
               THEN Throw([m EXCEPT !.heap = h3], t)
               ELSE ExplainStep([m EXCEPT !.heap = SetParent(h3, c, f.node)],
                                t, "under", "Rotate under left child", FALSE)
      [] f.pc = "under" ->
           LET h1 == IF f.n3 # NULL
                     THEN IF f.node = h[f.n3].leftChild
                          THEN [h EXCEPT ![f.n3].leftChild = f.n2]
                          ELSE [h EXCEPT ![f.n3].rightChild = f.n2]
                     ELSE h
               h2 == SetParent(h1, f.n2, f.n3)
           IN  ExplainStep([m EXCEPT !.heap = h2,
                                     !.root = IF f.n3 # NULL THEN @ ELSE f.n2],
                           t, "complete", "Rotation complete", FALSE)
      [] f.pc = "complete" -> Return(m, t, NULL)

----------------------------------------------------------------------------
(* RedBlackTree: insertion *)

\* A fixup that leaves the red parent and its red child as they are.
RebalanceWithoutRotation(m, t, f) == Return(m, t, NULL)

\* A recolouring that leaves the former grandparent as it was.
recolourParentOnly(h, p, g) == [h EXCEPT ![p].colour = BLACK]

\* parent.colour = this.BLACK; grandparent.colour = this.RED after
\* 'Recolour relocated nodes'
recolourRelocated(h, p, g) ==
    [h EXCEPT ![p].colour = BLACK, ![g].colour = RED]

\* A rotation case that runs the fixup again on the former grandparent.
RebalanceDifferingAntecedentsRecursing(m, t, f) ==
    LET h == m.heap IN
    CASE f.pc = "entry" ->
           ExplainStep(WithTop(m, t, [f EXCEPT !.n2 = h[f.node].parent,
                                               !.n3 = grandparent(h, f.node)]),
                       t, "determined", "Determine rotation direction", FALSE)
      [] f.pc = "determined" ->
           LET doRotateLeft  == isRightChild(h, f.node) /\ isLeftChild(h, f.n2)
               doRotateRight == isLeftChild(h, f.node) /\ isRightChild(h, f.n2)
               dir == IF doRotateLeft THEN "left"
                      ELSE IF doRotateRight THEN "right" ELSE "none"
               m1 == WithTop(m, t, [f EXCEPT !.flag = dir])
           IN  IF doRotateLeft \/ doRotateRight
               THEN ExplainStep(m1, t, "outward", "Rotate outside grandparent", FALSE)
               ELSE Goto(m1, t, "outward")
      [] f.pc = "outward" ->
           IF f.flag = "left"
           THEN Call(m, t, "rotatedLeft", Frame("rotateLeft", f.n2, NULL, NULL, 0, FALSE))
           ELSE IF f.flag = "right"
           THEN Call(m, t, "rotatedRight", Frame("rotateRight", f.n2, NULL, NULL, 0, FALSE))
           ELSE Goto(m, t, "reassign")
      [] f.pc = "rotatedLeft" ->
           WithTop(m, t, [f EXCEPT !.node = h[f.node].leftChild, !.pc = "reassign"])
      [] f.pc = "rotatedRight" ->
           WithTop(m, t, [f EXCEPT !.node = h[f.node].rightChild, !.pc = "reassign"])
      [] f.pc = "reassign" ->
           IF f.node = NULL
           THEN Throw(m, t)
           ELSE ExplainStep(WithTop(m, t, [f EXCEPT !.n2 = h[f.node].parent,
                                                    !.n3 = grandparent(h, f.node)]),
                            t, "about", "Rotate about grandparent", FALSE)
      [] f.pc = "about" ->
           IF isLeftChild(h, f.node)
           THEN Call(m, t, "rotated", Frame("rotateRight", f.n3, NULL, NULL, 0, FALSE))
           ELSE Call(m, t, "rotated", Frame("rotateLeft", f.n3, NULL, NULL, 0, FALSE))
      [] f.pc = "rotated" ->
           ExplainStep(m, t, "recolour", "Recolour relocated nodes", TRUE)
      [] f.pc = "recolour" ->
           Call([m EXCEPT !.heap = recolourRelocated(h, f.n2, f.n3)], t, "again",
                Frame("rebalance", f.n3, NULL, NULL, 0, FALSE))
      [] f.pc = "again" -> Return(m, t, NULL)

\* rebalanceDifferingAntecedents(node): parent is the frame's n2, grandparent
\* its n3; flag is "left" for doRotateLeft, "right" for doRotateRight.
RebalanceDifferingAntecedents(m, t, f) ==
    LET h == m.heap IN
    CASE f.pc = "entry" ->
           ExplainStep(WithTop(m, t, [f EXCEPT !.n2 = h[f.node].parent,
                                               !.n3 = grandparent(h, f.node)]),
                       t, "determined", "Determine rotation direction", FALSE)
      [] f.pc = "determined" ->
           LET doRotateLeft  == isRightChild(h, f.node) /\ isLeftChild(h, f.n2)
               doRotateRight == isLeftChild(h, f.node) /\ isRightChild(h, f.n2)
               dir == IF doRotateLeft THEN "left"
                      ELSE IF doRotateRight THEN "right" ELSE "none"
               m1 == WithTop(m, t, [f EXCEPT !.flag = dir])
           IN  IF doRotateLeft \/ doRotateRight
               THEN ExplainStep(m1, t, "outward", "Rotate outside grandparent", FALSE)
               ELSE Goto(m1, t, "outward")
      [] f.pc = "outward" ->
           IF f.flag = "left"
           THEN Call(m, t, "rotatedLeft", Frame("rotateLeft", f.n2, NULL, NULL, 0, FALSE))
           ELSE IF f.flag = "right"
           THEN Call(m, t, "rotatedRight", Frame("rotateRight", f.n2, NULL, NULL, 0, FALSE))
           ELSE Goto(m, t, "reassign")
      [] f.pc = "rotatedLeft" ->
           WithTop(m, t, [f EXCEPT !.node = h[f.node].leftChild, !.pc = "reassign"])
      [] f.pc = "rotatedRight" ->
           WithTop(m, t, [f EXCEPT !.node = h[f.node].rightChild, !.pc = "reassign"])
      [] f.pc = "reassign" ->
           IF f.node = NULL
           THEN Throw(m, t)
           ELSE ExplainStep(WithTop(m, t, [f EXCEPT !.n2 = h[f.node].parent,
                                                    !.n3 = grandparent(h, f.node)]),
                            t, "about", "Rotate about grandparent", FALSE)
      [] f.pc = "about" ->
           IF isLeftChild(h, f.node)
           THEN Call(m, t, "rotated", Frame("rotateRight", f.n3, NULL, NULL, 0, FALSE))
           ELSE Call(m, t, "rotated", Frame("rotateLeft", f.n3, NULL, NULL, 0, FALSE))
      [] f.pc = "rotated" ->
           ExplainStep(m, t, "recolour", "Recolour relocated nodes", TRUE)
      [] f.pc = "recolour" ->
           Return([m EXCEPT !.heap = recolourRelocated(h, f.n2, f.n3)], t, NULL)

\* A rebalance that colours the node black under a black parent.
RebalanceRecolouring(m, t, f) ==
    LET h == m.heap
        p == h[f.node].parent
        o == ommer(h, f.node)
        g == grandparent(h, f.node)
    IN
    CASE f.pc = "entry" ->
           IF f.node = m.root
           THEN ExplainStep([m EXCEPT !.heap[f.node].colour = BLACK],
                            t, "done", "Colour root black", TRUE)
           ELSE IF p = NULL
           THEN Throw(m, t)
           ELSE IF h[p].colour = BLACK
           THEN ExplainStep([m EXCEPT !.heap[f.node].colour = BLACK],
                            t, "done", "Invariants hold", TRUE)
           ELSE IF o # NULL /\ h[o].colour = RED
           THEN ExplainStep(m, t, "recolour", "Recolour parent and uncle", FALSE)
           ELSE Call(m, t, "done",
                     Frame("rebalanceDifferingAntecedents", f.node, NULL, NULL, 0, "none"))
      [] f.pc = "recolour" ->
           IF o = NULL \/ p = NULL \/ g = NULL
           THEN Throw(m, t)
           ELSE LET h1 == [h EXCEPT ![o].colour = BLACK]
                    h2 == [h1 EXCEPT ![p].colour = BLACK]
                    h3 == [h2 EXCEPT ![g].colour = RED]
                IN  ExplainStep([m EXCEPT !.heap = h3], t, "recurse",
                                "Restore invariants from grandparent", FALSE)
      [] f.pc = "recurse" ->
           Call(m, t, "done", Frame("rebalance", g, NULL, NULL, 0, FALSE))
      [] f.pc = "done" ->
           Return([m EXCEPT !.numOperations = Inc(@)], t, NULL)

\* rebalance(node)
Rebalance(m, t, f) ==
    LET h == m.heap
        p == h[f.node].parent
        o == ommer(h, f.node)
        g == grandparent(h, f.node)
    IN
    CASE f.pc = "entry" ->
           IF f.node = m.root
           THEN ExplainStep([m EXCEPT !.heap[f.node].colour = BLACK],
                            t, "done", "Colour root black", TRUE)
           ELSE IF p = NULL
           THEN Throw(m, t)
           ELSE IF h[p].colour = BLACK
           THEN ExplainStep(m, t, "done", "Invariants hold", TRUE)
           ELSE IF o # NULL /\ h[o].colour = RED
           THEN ExplainStep(m, t, "recolour", "Recolour parent and uncle", FALSE)
           ELSE Call(m, t, "done",
                     Frame("rebalanceDifferingAntecedents", f.node, NULL, NULL, 0, "none"))
      [] f.pc = "recolour" ->
           IF o = NULL \/ p = NULL \/ g = NULL
           THEN Throw(m, t)
           ELSE LET h1 == [h EXCEPT ![o].colour = BLACK]
                    h2 == [h1 EXCEPT ![p].colour = BLACK]
                    h3 == [h2 EXCEPT ![g].colour = RED]
                IN  ExplainStep([m EXCEPT !.heap = h3], t, "recurse",
                                "Restore invariants from grandparent", FALSE)
      [] f.pc = "recurse" ->
           Call(m, t, "done", Frame("rebalance", g, NULL, NULL, 0, FALSE))
      [] f.pc = "done" ->
           Return([m EXCEPT !.numOperations = Inc(@)], t, NULL)

\* RedBlackTree.addItem(item): addedNode is the frame's node.
RedBlackAddItem(m, t, f) ==
    CASE f.pc = "entry" ->
           LET id == Len(m.heap) + 1 IN
           Call(WithTop([m EXCEPT !.heap = NewNode(m.heap, f.item,
                                                   IF f.flag THEN BLACK ELSE RED)], t,
                        [f EXCEPT !.node = id]),
                t, "added", Frame("addNodeNaive", id, NULL, NULL, 0, FALSE))
      [] f.pc = "added" ->
           ExplainStep(m, t, "restore", "Restore invariants", FALSE)
      [] f.pc = "restore" ->
           Call(m, t, "done", Frame("rebalance", f.node, NULL, NULL, 0, FALSE))
      [] f.pc = "done" -> Return(m, t, NULL)

----------------------------------------------------------------------------
(* RedBlackTree: removal *)

\* removeLeaf(leaf)
RemoveLeaf(m, t, f) ==
    CASE f.pc = "entry" ->
           ExplainStep(m, t, "remove", "Replace leaf with null", TRUE)
      [] f.pc = "remove" ->
           Return([m EXCEPT !.heap = makeNull(m.heap, f.node)], t, NULL)

\* The condition of the double-black cases with a child that is missing
\* read as BLACK.
SiblingCaseLenient(h, parent, sib, pc, sc) ==
    IF h[parent].colour # pc THEN "no"
    ELSE IF sib = NULL THEN "throws"
    ELSE IF h[sib].colour # sc THEN "no"
    ELSE IF h[sib].leftChild # NULL /\ h[h[sib].leftChild].colour # BLACK THEN "no"
    ELSE IF h[sib].rightChild # NULL /\ h[h[sib].rightChild].colour # BLACK THEN "no"
    ELSE "yes"

\* The condition shared by the double-black cases, evaluated left to right:
\* parent.colour === pc && sibling.colour === sc
\*   && sibling.leftChild!.colour === BLACK && sibling.rightChild!.colour === BLACK.
\* Reading a field of null throws.
SiblingCase(h, parent, sib, pc, sc) ==
    IF h[parent].colour # pc THEN "no"
    ELSE IF sib = NULL THEN "throws"
    ELSE IF h[sib].colour # sc THEN "no"
    ELSE IF h[sib].leftChild = NULL THEN "throws"
    ELSE IF h[h[sib].leftChild].colour # BLACK THEN "no"
    ELSE IF h[sib].rightChild = NULL THEN "throws"
    ELSE IF h[h[sib].rightChild].colour # BLACK THEN "no"
    ELSE "yes"

\* The task a call without await runs as: the free one of least number.
FreeTask(m) ==
    CHOOSE u \in TaskIds \ {MAIN} :
        /\ m.tasks[u] = NoTask
        /\ \A v \in TaskIds \ {MAIN} : m.tasks[v] = NoTask => u <= v

RECURSIVE Run(_, _)

\* A call that is not awaited: the callee runs at once, up to its first
\* await, as a task of its own, and the caller goes on without its result.
RunDetached(m, callee) ==
    LET t2 == FreeTask(m) IN
    Run([m EXCEPT !.tasks[t2] = [stack |-> <<callee>>, wait |-> "run"]], t2)

\* rebalanceAlternatingSiblingBranch(node), "Case Four": parent is n2, sibling n3.
RebalanceAlternatingSiblingBranch(m, t, f) ==
    LET h == m.heap
        parent == h[f.node].parent
        sib == sibling(h, f.node)
        case == SiblingCase(h, parent, sib, RED, BLACK)
    IN
    CASE f.pc = "entry" ->
           IF case = "throws" THEN Throw(m, t)
           ELSE IF case = "yes"
           THEN ExplainStep(WithTop(m, t, [f EXCEPT !.n2 = parent, !.n3 = sib]),
                            t, "swap", "Swap parent and sibling colours", FALSE)
           ELSE Return(m, t, NULL)
      [] f.pc = "swap" ->
           LET h1 == [h EXCEPT ![f.n2].colour = BLACK]
               h2 == [h1 EXCEPT ![f.n3].colour = RED]
           IN  Return([m EXCEPT !.heap = h2], t, NULL)

\* rebalanceBlackCluster(node), "Case Three": parent is n2, sibling n3.
RebalanceBlackCluster(m, t, f) ==
    LET h == m.heap
        parent == h[f.node].parent
        sib == sibling(h, f.node)
        case == SiblingCase(h, parent, sib, BLACK, BLACK)
    IN
    CASE f.pc = "entry" ->
           IF case = "throws" THEN Throw(m, t)
           ELSE IF case = "yes"
           THEN ExplainStep(WithTop(m, t, [f EXCEPT !.n2 = parent, !.n3 = sib]),
                            t, "recolour", "Recolour sibling red", FALSE)
           ELSE Call(m, t, "done",
                     Frame("rebalanceAlternatingSiblingBranch", f.node, NULL, NULL, 0, FALSE))
      [] f.pc = "recolour" ->
           Call([m EXCEPT !.heap[f.n3].colour = RED], t, "done",
                Frame("rebalanceRootDoubleBlack", f.n2, NULL, NULL, 0, FALSE))
      [] f.pc = "done" -> Return(m, t, NULL)

\* rebalanceRotateRedSibling(node), "Case Two": parent is n2, sibling n3.
\* The rotation about the parent is called without await.
RebalanceRotateRedSibling(m, t, f) ==
    LET h == m.heap
        parent == h[f.node].parent
        sib == sibling(h, f.node)
        case == SiblingCase(h, parent, sib, BLACK, RED)
    IN
    CASE f.pc = "entry" ->
           IF case = "throws" THEN Throw(m, t)
           ELSE IF case = "yes"
           THEN ExplainStep(WithTop(m, t, [f EXCEPT !.n2 = parent, !.n3 = sib]),
                            t, "rotate", "Rotate about parent", FALSE)
           ELSE Call(m, t, "done",
                     Frame("rebalanceBlackCluster", f.node, NULL, NULL, 0, FALSE))
      [] f.pc = "rotate" ->
           LET callee == IF isLeftChild(h, f.node)
                         THEN Frame("rotateLeft", f.n2, NULL, NULL, 0, FALSE)
                         ELSE Frame("rotateRight", f.n2, NULL, NULL, 0, FALSE)
               m1 == RunDetached(m, callee)
           IN  ExplainStep(m1, t, "recolour", "Recolour rotated nodes", FALSE)
      [] f.pc = "recolour" ->
           LET h1 == [h EXCEPT ![f.n2].colour = RED]
               h2 == [h1 EXCEPT ![f.n3].colour = BLACK]
           IN  Call([m EXCEPT !.heap = h2], t, "done",
                    Frame("rebalanceRootDoubleBlack", f.node, NULL, NULL, 0, FALSE))
      [] f.pc = "done" -> Return(m, t, NULL)

\* rebalanceRootDoubleBlack(node), "Case One"
RebalanceRootDoubleBlack(m, t, f) ==
    CASE f.pc = "entry" ->
           IF m.heap[f.node].parent = NULL
           THEN ExplainStep(m, t, "recolour", "Recolour root black", FALSE)
           ELSE Call(m, t, "done",
                     Frame("rebalanceRotateRedSibling", f.node, NULL, NULL, 0, FALSE))
      [] f.pc = "recolour" ->
           Return([m EXCEPT !.heap[f.node].colour = BLACK], t, NULL)
      [] f.pc = "done" -> Return(m, t, NULL)

\* A promotion that copies the colour with the value.
promoteValueAndColour(h, node, min) ==
    [h EXCEPT ![node].value = h[min].value, ![node].colour = h[min].colour]

\* node.value = minChild.value in spliceNode: the colour of node stays.
promoteValue(h, node, min) == [h EXCEPT ![node].value = h[min].value]

\* A promoted child that keeps its colour.
colourKept(h, n) == h

\* definedChild.colour = this.BLACK after 'Colour promoted node black'
colourBlack(h, n) == [h EXCEPT ![n].colour = BLACK]

\* spliceNode(node): minChild is the frame's n2, definedChild its n3.
SpliceNode(m, t, f) ==
    LET h == m.heap IN
    CASE f.pc = "entry" ->
           IF ~IsNull(h, h[f.node].leftChild) /\ ~IsNull(h, h[f.node].rightChild)
           THEN ExplainStep(m, t, "find", "Find minimum greater value", FALSE)
           ELSE Goto(m, t, "defined")
      [] f.pc = "find" ->
           ExplainStep(WithTop(m, t, [f EXCEPT !.n2 = minChild(h, h[f.node].rightChild)]),
                       t, "promote", "Promote minimum greater value", FALSE)
      [] f.pc = "promote" ->
           WithTop([m EXCEPT !.heap = promoteValue(h, f.node, f.n2)], t,
                   [f EXCEPT !.node = f.n2, !.pc = "defined"])
      [] f.pc = "defined" ->
           IF h[f.node].leftChild = NULL
           THEN Throw(m, t)
           ELSE
           LET definedChild == IF IsNull(h, h[f.node].leftChild)
                               THEN h[f.node].rightChild ELSE h[f.node].leftChild
               m1 == WithTop(m, t, [f EXCEPT !.n3 = definedChild])
           IN  IF f.node = m.root
               THEN IF isLeaf(h, f.node)
                    THEN Call(m1, t, "done", Frame("removeLeaf", f.node, NULL, NULL, 0, FALSE))
                    ELSE ExplainStep(m1, t, "rootPromote", "Promote child to root", TRUE)
               ELSE IF h[f.node].colour = RED
               THEN Call(m1, t, "done", Frame("removeLeaf", f.node, NULL, NULL, 0, FALSE))
               ELSE IF h[definedChild].colour = RED
               THEN ExplainStep(m1, t, "promoteChild", "Promote child node", FALSE)
               ELSE ExplainStep(m1, t, "doubleBlack", "Rebalance double-black path", FALSE)
      [] f.pc = "rootPromote" ->
           LET h1 == SetParent(h, f.n3, NULL)
               h2 == [h1 EXCEPT ![f.n3].colour = BLACK]
           IN  Return([m EXCEPT !.heap = h2, !.root = f.n3], t, NULL)
      [] f.pc = "promoteChild" ->
           LET parent == h[f.node].parent IN
           IF parent = NULL
           THEN Throw(m, t)
           ELSE LET h1 == IF isLeftChild(h, f.node)
                          THEN [h EXCEPT ![parent].leftChild = f.n3]
                          ELSE [h EXCEPT ![parent].rightChild = f.n3]
                    h2 == SetParent(h1, f.n3, parent)
                IN  ExplainStep([m EXCEPT !.heap = h2], t, "colour",
                                "Colour promoted node black", TRUE)
      [] f.pc = "colour" ->
           Return([m EXCEPT !.heap = colourBlack(h, f.n3)], t, NULL)
      [] f.pc = "doubleBlack" ->
           Call(m, t, "rebalanced",
                Frame("rebalanceRootDoubleBlack", f.node, NULL, NULL, 0, FALSE))
      [] f.pc = "rebalanced" ->
           Call(m, t, "done", Frame("removeLeaf", f.node, NULL, NULL, 0, FALSE))
      [] f.pc = "done" -> Return(m, t, NULL)

\* findRemovedNode(item, node)
FindRemovedNode(m, t, f) ==
    LET h == m.heap IN
    CASE f.pc = "entry" ->
           IF IsNull(h, f.node)
           THEN ExplainStep(m, t, "null", "Null node", TRUE)
           ELSE IF f.item < h[f.node].value
           THEN ExplainNavigation(m, t, "left", f.item, f.node)
           ELSE IF f.item > h[f.node].value
           THEN ExplainNavigation(m, t, "right", f.item, f.node)
           ELSE Return(m, t, f.node)
      [] f.pc = "null" -> Return(m, t, NULL)
      [] f.pc = "left" ->
           Call(m, t, "found",
                Frame("findRemovedNode", h[f.node].leftChild, NULL, NULL, f.item, FALSE))
      [] f.pc = "right" ->
           Call(m, t, "found",
                Frame("findRemovedNode", h[f.node].rightChild, NULL, NULL, f.item, FALSE))
      [] f.pc = "found" -> Return(m, t, m.ret)

\* A removeItem without the check for an item that was not found: it goes
\* on to its last two statements.
RedBlackRemoveItemUnguarded(m, t, f) ==
    CASE f.pc = "entry" ->
           Call(m, t, "found", Frame("findRemovedNode", m.root, NULL, NULL, f.item, FALSE))
      [] f.pc = "found" ->
           IF m.ret = NULL
           THEN Goto(m, t, "spliced")
           ELSE Call(m, t, "spliced", Frame("spliceNode", m.ret, NULL, NULL, 0, FALSE))
      [] f.pc = "spliced" ->
           Return([m EXCEPT !.size = @ - 1, !.numOperations = Inc(@)], t, NULL)

\* RedBlackTree.removeItem(item)
RedBlackRemoveItem(m, t, f) ==
    CASE f.pc = "entry" ->
           Call(m, t, "found", Frame("findRemovedNode", m.root, NULL, NULL, f.item, FALSE))
      [] f.pc = "found" ->
           IF m.ret = NULL
           THEN Return(m, t, NULL)
           ELSE Call(m, t, "spliced", Frame("spliceNode", m.ret, NULL, NULL, 0, FALSE))
      [] f.pc = "spliced" ->
           Return([m EXCEPT !.size = @ - 1, !.numOperations = Inc(@)], t, NULL)

----------------------------------------------------------------------------
(* NaiveTree: removal *)

\* The node to remove keeps its value.
promoteNothing(h, node, min) == h

\* node.value = minChild.value of removeRecursive
promoteMinimum(h, node, min) == [h EXCEPT ![node].value = h[min].value]

\* removeRecursive(item, node): minChild is the frame's n2.
RemoveRecursive(m, t, f) ==
    LET h == m.heap IN
    CASE f.pc = "entry" ->
           IF IsNull(h, f.node)
           THEN ExplainStep(m, t, "return", "Null node", TRUE)
           ELSE IF f.item < h[f.node].value
           THEN ExplainNavigation(m, t, "goLeft", f.item, f.node)
           ELSE IF f.item > h[f.node].value
           THEN ExplainNavigation(m, t, "goRight", f.item, f.node)
           ELSE IF isLeaf(h, f.node)
           THEN ExplainStep(m, t, "leaf", "Remove leaf node", TRUE)
           ELSE IF IsNull(h, h[f.node].leftChild)
           THEN ExplainStep(m, t, "promoteRight", "Promote right child", TRUE)
           ELSE IF IsNull(h, h[f.node].rightChild)
           THEN ExplainStep(m, t, "promoteLeft", "Promote left child", TRUE)
           ELSE ExplainStep(m, t, "find", "Find minimum greater value", FALSE)
      [] f.pc = "return" -> Return(m, t, f.node)
      [] f.pc = "goLeft" ->
           Call(m, t, "left",
                Frame("removeRecursive", h[f.node].leftChild, NULL, NULL, f.item, FALSE))
      [] f.pc = "left" ->
           LET h1 == SetParent(h, m.ret, f.node)
               h2 == [h1 EXCEPT ![f.node].leftChild = m.ret]
           IN  Return([m EXCEPT !.heap = h2], t, f.node)
      [] f.pc = "goRight" ->
           Call(m, t, "right",
                Frame("removeRecursive", h[f.node].rightChild, NULL, NULL, f.item, FALSE))
      [] f.pc = "right" ->
           LET h1 == SetParent(h, m.ret, f.node)
               h2 == [h1 EXCEPT ![f.node].rightChild = m.ret]
           IN  Return([m EXCEPT !.heap = h2], t, f.node)
      [] f.pc = "leaf" ->
           LET id == Len(h) + 1
               h1 == NewNode(h, NULL, BLACK)
           IN  Return([m EXCEPT !.heap = SetParent(h1, id, f.node)], t, id)
      [] f.pc = "promoteRight" ->
           LET c == h[f.node].rightChild IN
           Return([m EXCEPT !.heap = SetParent(h, c, h[f.node].parent)], t, c)
      [] f.pc = "promoteLeft" ->
           LET c == h[f.node].leftChild IN
           Return([m EXCEPT !.heap = SetParent(h, c, h[f.node].parent)], t, c)
      [] f.pc = "find" ->
           ExplainStep(WithTop(m, t, [f EXCEPT !.n2 = minChild(h, h[f.node].rightChild)]),
                       t, "promote", "Promote minimum greater value", FALSE)
      [] f.pc = "promote" ->
           ExplainStep([m EXCEPT !.heap = promoteMinimum(h, f.node, f.n2)],
                       t, "removePromoted", "Remove promoted node", FALSE)
      [] f.pc = "removePromoted" ->
           Call(m, t, "newRight",
                Frame("removeRecursive", h[f.node].rightChild, NULL, NULL,
                      h[f.node].value, FALSE))
      [] f.pc = "newRight" ->
           LET h1 == SetParent(h, m.ret, f.node)
               h2 == [h1 EXCEPT ![f.node].rightChild = m.ret]
           IN  Return([m EXCEPT !.heap = h2], t, f.node)

\* NaiveTree.removeItem(item)
NaiveRemoveItem(m, t, f) ==
    CASE f.pc = "entry" ->
           Call(m, t, "removed", Frame("removeRecursive", m.root, NULL, NULL, f.item, FALSE))
      [] f.pc = "removed" ->
           Return([m EXCEPT !.root = m.ret,
                            !.heap = SetParent(m.heap, m.ret, NULL),
                            !.size = @ - 1,
                            !.numOperations = Inc(@)], t, NULL)

----------------------------------------------------------------------------
(* AbstractTree: traversals *)

\* yield v, inside the async generators of a traversal: the value goes to
\* the consumer at the bottom of the task, which takes it and asks for the
\* next one before anything else runs.
Yield(m, t, v) ==
    IF m.tasks[t].stack[1].fn = "ApplicationStore.traverse"
    THEN [m EXCEPT !.items = Append(@, v)]
    ELSE [m EXCEPT !.yielded = Append(@, v)]

\* The kinds of traversal a direct caller abandons after the number of
\* values in its frame's item, and the traversal each is.
PartialKinds == {"partialPre", "partialIn", "partialPost"}

OrderOf(kind) ==
    CASE kind = "partialPre" -> "pre"
      [] kind = "partialIn" -> "in"
      [] kind = "partialPost" -> "post"
      [] OTHER -> kind

\* The consumer has the values it wanted and asks for no more: the
\* generators stay where they yielded and the consumer goes on.
Abandons(m, t) ==
    LET c == m.tasks[t].stack[1] IN
    /\ c.fn = "caller"
    /\ c.flag \in PartialKinds
    /\ Len(m.yielded) = c.item

Abandon(m, t) ==
    [m EXCEPT !.tasks[t].stack = <<[m.tasks[t].stack[1] EXCEPT !.pc = "returned"]>>]

\* An explainTraverseCurrent that issues its step before it yields.
ExplainTraverseCurrentStepFirst(m, t, f) ==
    CASE f.pc = "entry" -> ExplainStep(m, t, "yield", "Add current node", FALSE)
      [] f.pc = "yield" ->
           LET m1 == Yield(m, t, m.heap[f.node].value) IN
           IF Abandons(m1, t) THEN Abandon(m1, t) ELSE Return(m1, t, NULL)

\* explainTraverseCurrent(node)
ExplainTraverseCurrent(m, t, f) ==
    CASE f.pc = "entry" ->
           LET m1 == Yield(m, t, m.heap[f.node].value) IN
           IF Abandons(m1, t)
           THEN Abandon(m1, t)
           ELSE ExplainStep(m1, t, "done", "Add current node", FALSE)
      [] f.pc = "done" -> Return(m, t, NULL)

\* An explainTraverseLeft that makes the left child the root as it descends.
ExplainTraverseLeftMovingRoot(m, t, f) ==
    LET h == m.heap IN
    CASE f.pc = "entry" ->
           IF ~IsNull(h, h[f.node].leftChild)
           THEN ExplainStep(m, t, "descend", "Traverse left child", FALSE)
           ELSE Return(m, t, NULL)
      [] f.pc = "descend" ->
           Call([m EXCEPT !.root = h[f.node].leftChild], t, "done",
                Frame("navigate", h[f.node].leftChild, NULL, NULL, 0, f.flag))
      [] f.pc = "done" -> Return(m, t, NULL)

\* explainTraverseLeft(node, prefix, callback): the callback is the
\* navigate function of the traversal order in the frame's flag.
ExplainTraverseLeft(m, t, f) ==
    LET h == m.heap IN
    CASE f.pc = "entry" ->
           IF h[f.node].leftChild = NULL THEN Throw(m, t)
           ELSE IF ~IsNull(h, h[f.node].leftChild)
           THEN ExplainStep(m, t, "descend", "Traverse left child", FALSE)
           ELSE Return(m, t, NULL)
      [] f.pc = "descend" ->
           Call(m, t, "done", Frame("navigate", h[f.node].leftChild, NULL, NULL, 0, f.flag))
      [] f.pc = "done" -> Return(m, t, NULL)

\* explainTraverseRight(node, prefix, callback)
ExplainTraverseRight(m, t, f) ==
    LET h == m.heap IN
    CASE f.pc = "entry" ->
           IF h[f.node].rightChild = NULL THEN Throw(m, t)
           ELSE IF ~IsNull(h, h[f.node].rightChild)
           THEN ExplainStep(m, t, "descend", "Traverse right child", FALSE)
           ELSE Return(m, t, NULL)
      [] f.pc = "descend" ->
           Call(m, t, "done", Frame("navigate", h[f.node].rightChild, NULL, NULL, 0, f.flag))
      [] f.pc = "done" -> Return(m, t, NULL)

\* Left subtree, current node, right subtree, whatever the order.
PartsLeftFirst(order) ==
    <<"explainTraverseLeft", "explainTraverseCurrent", "explainTraverseRight">>

\* The three parts of navigatePreOrder, navigateInOrder and navigatePostOrder,
\* in the order each function delegates to them.
Parts(order) ==
    CASE order = "pre"  -> <<"explainTraverseCurrent", "explainTraverseLeft", "explainTraverseRight">>
      [] order = "in"   -> <<"explainTraverseLeft", "explainTraverseCurrent", "explainTraverseRight">>
      [] order = "post" -> <<"explainTraverseLeft", "explainTraverseRight", "explainTraverseCurrent">>

\* A navigate that handles the current node first whatever the order.
NavigateCurrentFirst(m, t, f) ==
    CASE f.pc = "entry" ->
           Call(m, t, "second", Frame(Parts("pre")[1], f.node, NULL, NULL, 0, f.flag))
      [] f.pc = "second" ->
           Call(m, t, "third", Frame(Parts("pre")[2], f.node, NULL, NULL, 0, f.flag))
      [] f.pc = "third" ->
           Call(m, t, "done", Frame(Parts("pre")[3], f.node, NULL, NULL, 0, f.flag))
      [] f.pc = "done" -> Return(m, t, NULL)

\* navigatePreOrder(node), navigateInOrder(node), navigatePostOrder(node)
Navigate(m, t, f) ==
    CASE f.pc = "entry" ->
           Call(m, t, "second", Frame(Parts(f.flag)[1], f.node, NULL, NULL, 0, f.flag))
      [] f.pc = "second" ->
           Call(m, t, "third", Frame(Parts(f.flag)[2], f.node, NULL, NULL, 0, f.flag))
      [] f.pc = "third" ->
           Call(m, t, "done", Frame(Parts(f.flag)[3], f.node, NULL, NULL, 0, f.flag))
      [] f.pc = "done" -> Return(m, t, NULL)

\* traversePreOrder(), traverseInOrder(), traversePostOrder()
Traverse(m, t, f) ==
    CASE f.pc = "entry" ->
           IF ~IsNull(m.heap, m.root)
           THEN Call(m, t, "complete", Frame("navigate", m.root, NULL, NULL, 0, f.flag))
           ELSE Goto(m, t, "complete")
      [] f.pc = "complete" ->
           ExplainStep(m, t, "done", "Traversal complete", TRUE)
      [] f.pc = "done" -> Return(m, t, NULL)

----------------------------------------------------------------------------
(* ApplicationStore *)

\* this.tree.addItem(item), on the tree of the current variant
TreeAddItem(m, item) ==
    IF m.variant = "naiveTree"
    THEN Frame("NaiveTree.addItem", NULL, NULL, NULL, item, FALSE)
    ELSE Frame("RedBlackTree.addItem", NULL, NULL, NULL, item, FALSE)

\* this.tree.removeItem(item)
TreeRemoveItem(m, item) ==
    IF m.variant = "naiveTree"
    THEN Frame("NaiveTree.removeItem", NULL, NULL, NULL, item, FALSE)
    ELSE Frame("RedBlackTree.removeItem", NULL, NULL, NULL, item, FALSE)

Without(s, index) == SubSeq(s, 1, index - 1) \o SubSeq(s, index + 1, Len(s))

\* Whether the frame on top of task t is the handler the user interface
\* called, and not a call made by another handler.
Outermost(m, t) == Len(m.tasks[t].stack) = 1

\* addItem without the test of items.includes(item)
StoreAddItemUntested(m, t, f) ==
    CASE f.pc = "entry" ->
           Call([m EXCEPT !.treeOperating = TRUE, !.explaining = f.flag],
                t, "added", TreeAddItem(m, f.item))
      [] f.pc = "added" ->
           Return([m EXCEPT !.items = Append(@, f.item), !.treeOperating = FALSE,
                            !.op.done = Outermost(m, t)], t, NULL)

\* ApplicationStore.addItem(item); the frame's flag is the explainAdd
\* setting.  For an item that is in items only a toast is shown.
StoreAddItem(m, t, f) ==
    CASE f.pc = "entry" ->
           IF \E i \in 1..Len(m.items) : m.items[i] = f.item
           THEN Return([m EXCEPT !.op.done = Outermost(m, t)], t, NULL)
           ELSE Call([m EXCEPT !.treeOperating = TRUE, !.explaining = f.flag],
                     t, "added", TreeAddItem(m, f.item))
      [] f.pc = "added" ->
           Return([m EXCEPT !.items = Append(@, f.item), !.treeOperating = FALSE,
                            !.op.done = Outermost(m, t)], t, NULL)

\* A removeItemAtIndex that does not set treeOperating.
StoreRemoveItemAtIndexUnflagged(m, t, f) ==
    CASE f.pc = "entry" ->
           Call([m EXCEPT !.explaining = f.flag],
                t, "then", TreeRemoveItem(m, m.items[f.item]))
      [] f.pc = "then" ->
           Return([m EXCEPT !.items = Without(@, f.item), !.treeOperating = FALSE,
                            !.op.done = TRUE], t, NULL)

\* ApplicationStore.removeItemAtIndex(index): index is the frame's item,
\* the flag the explainRemove setting.
StoreRemoveItemAtIndex(m, t, f) ==
    CASE f.pc = "entry" ->
           Call([m EXCEPT !.treeOperating = TRUE, !.explaining = f.flag],
                t, "then", TreeRemoveItem(m, m.items[f.item]))
      [] f.pc = "then" ->
           Return([m EXCEPT !.items = Without(@, f.item), !.treeOperating = FALSE,
                            !.op.done = TRUE], t, NULL)

\* ApplicationStore.traverse(traversal): the frame's flag is the pair of the
\* traversal and the explainTraverse setting.
StoreTraverse(m, t, f) ==
    CASE f.pc = "entry" ->
           Call([m EXCEPT !.treeOperating = TRUE, !.explaining = f.flag[2],
                          !.items = <<>>],
                t, "consumed", Frame("traverse", NULL, NULL, NULL, 0, f.flag[1]))
      [] f.pc = "consumed" ->
           Return([m EXCEPT !.treeOperating = FALSE, !.op.done = TRUE], t, NULL)

\* AbstractTree.reset()
Reset(m) ==
    [m EXCEPT !.heap = NewNode(@, NULL, BLACK),
              !.root = Len(m.heap) + 1,
              !.size = 0,
              !.numOperations = 0]

\* ApplicationStore.clearTree()
ClearTree(m) == Reset([m EXCEPT !.items = <<>>])

\* The tabs of App.render.
Tabs == {"naiveTree", "redBlackTree", "avlTree"}

\* ApplicationStore.changeTreeType(newTabId, prevTabId), for two different
\* tabs: the frame's flag holds newTabId, the explainAdd setting and
\* oldItems, its item the position in oldItems of the next item to add.  A
\* new tree is made for the tabs naiveTree and redBlackTree only.
StoreChangeTreeType(m, t, f) ==
    CASE f.pc = "entry" ->
           LET m1 == IF f.flag.newTabId \in {"naiveTree", "redBlackTree"}
                     THEN [Reset(m) EXCEPT !.variant = f.flag.newTabId,
                                           !.highlightedNodes = <<>>]
                     ELSE m
               m2 == [m1 EXCEPT !.items = <<>>]
           IN  WithTop(m2, t, [f EXCEPT !.pc = "next", !.item = 1,
                                        !.flag.oldItems = m.items])
      [] f.pc = "next" ->
           IF f.item > Len(f.flag.oldItems)
           THEN Return([m EXCEPT !.op.done = TRUE], t, NULL)
           ELSE Call(WithTop(m, t, [f EXCEPT !.item = @ + 1]), t, "next",
                     Frame("ApplicationStore.addItem", NULL, NULL, NULL,
                           f.flag.oldItems[f.item], f.flag.explainAdd))

----------------------------------------------------------------------------
(* Callers *)

\* What the last operation was called with: its kind and item, the in-order
\* sequence of the tree at the call, whether it has returned, and the items
\* the direct callers hold: those an addItem has returned for and no
\* removeItem has since.
\* For a pair of rotations and for a call that does not keep its
\* precondition, before holds the tree at the call and, once the call has
\* returned, the tree at the return.
Snapshot(m) == [heap |-> m.heap, root |-> m.root, size |-> m.size]

\* removeItem of an item that is not in the tree, addItem of one that is.
Unchecked == {"removeAbsent", "addPresent"}

\* removeItem of an item that is in the tree, the tree recorded at the call
\* and at the return.
Recorded == {"removeRecorded"}

\* rotateLeft(A) and then rotateRight of A's old right child, and the mirror
\* image.
RotationPairs == {"rotateLeftRight", "rotateRightLeft"}

\* The node of the tree that holds value v.
NodeOf(h, r, v) == CHOOSE n \in RealNodes(h, r) : h[n].value = v

NoOp == [kind |-> "none", item |-> 0, before |-> <<>>, done |-> TRUE, held |-> {}]

\* A direct caller of the tree's interface, awaiting one operation (or, for
\* "addRemove", addItem and then removeItem of the same item); the kind of
\* the operation is the frame's flag.
Caller(m, t, f) ==
    CASE f.pc = "entry" ->
           IF f.flag \in {"add", "addRemove"}
           THEN Call(m, t, IF f.flag = "add" THEN "returned" ELSE "added",
                     TreeAddItem(m, f.item))
           ELSE IF f.flag \in {"remove", "removeAbsent"} \cup Recorded
           THEN Call(m, t, "returned", TreeRemoveItem(m, f.item))
           ELSE IF f.flag = "addPresent"
           THEN Call(m, t, "returned", TreeAddItem(m, f.item))
           ELSE IF f.flag \in RotationPairs
           THEN LET a == NodeOf(m.heap, m.root, f.item)
                    c == IF f.flag = "rotateLeftRight" THEN m.heap[a].rightChild
                         ELSE m.heap[a].leftChild
                IN  Call(WithTop(m, t, [f EXCEPT !.node = a, !.n2 = c]), t, "rotated",
                         Frame(IF f.flag = "rotateLeftRight" THEN "rotateLeft"
                               ELSE "rotateRight", a, NULL, NULL, 0, FALSE))
           ELSE Call(m, t, "returned",
                     Frame("traverse", NULL, NULL, NULL, 0, OrderOf(f.flag)))
      [] f.pc = "added" ->
           Call(m, t, "returned", TreeRemoveItem(m, f.item))
      [] f.pc = "rotated" ->
           Call(m, t, "returned",
                Frame(IF f.flag = "rotateLeftRight" THEN "rotateRight"
                      ELSE "rotateLeft", f.n2, NULL, NULL, 0, FALSE))
      [] f.pc = "returned" ->
           Return([m EXCEPT !.op.done = TRUE,
                            !.op.before = IF f.flag \in RotationPairs \cup Unchecked
                                                          \cup Recorded
                                          THEN Append(@, Snapshot(m))
                                          ELSE @,
                            !.op.held = IF f.flag = "add" THEN @ \cup {f.item}
                                        ELSE IF f.flag \in {"remove"} \cup Recorded
                                        THEN @ \ {f.item}
                                        ELSE @],
                  t, NULL)

----------------------------------------------------------------------------
(* Running a task *)

\* One stretch of the frame on top of task t: from its pc to its next call,
\* await or return.
Step(m, t) ==
    LET f == Top(m, t) IN
    CASE f.fn = "caller" -> Caller(m, t, f)
      [] f.fn = "ApplicationStore.addItem" -> StoreAddItem(m, t, f)
      [] f.fn = "ApplicationStore.removeItemAtIndex" -> StoreRemoveItemAtIndex(m, t, f)
      [] f.fn = "ApplicationStore.traverse" -> StoreTraverse(m, t, f)
      [] f.fn = "ApplicationStore.changeTreeType" -> StoreChangeTreeType(m, t, f)
      [] f.fn = "NaiveTree.addItem" -> NaiveAddItem(m, t, f)
      [] f.fn = "addItemNaive" -> AddItemNaive(m, t, f)
      [] f.fn = "addNodeNaive" -> AddNodeNaive(m, t, f)
      [] f.fn = "addRecursive" -> AddRecursive(m, t, f)
      [] f.fn = "RedBlackTree.addItem" -> RedBlackAddItem(m, t, f)
      [] f.fn = "rebalance" -> Rebalance(m, t, f)
      [] f.fn = "rebalanceDifferingAntecedents" -> RebalanceDifferingAntecedents(m, t, f)
      [] f.fn = "rotateLeft" -> RotateLeft(m, t, f)
      [] f.fn = "rotateRight" -> RotateRight(m, t, f)
      [] f.fn = "RedBlackTree.removeItem" -> RedBlackRemoveItem(m, t, f)
      [] f.fn = "findRemovedNode" -> FindRemovedNode(m, t, f)
      [] f.fn = "spliceNode" -> SpliceNode(m, t, f)
      [] f.fn = "removeLeaf" -> RemoveLeaf(m, t, f)
      [] f.fn = "rebalanceRootDoubleBlack" -> RebalanceRootDoubleBlack(m, t, f)
      [] f.fn = "rebalanceRotateRedSibling" -> RebalanceRotateRedSibling(m, t, f)
      [] f.fn = "rebalanceBlackCluster" -> RebalanceBlackCluster(m, t, f)
      [] f.fn = "rebalanceAlternatingSiblingBranch" -> RebalanceAlternatingSiblingBranch(m, t, f)
      [] f.fn = "NaiveTree.removeItem" -> NaiveRemoveItem(m, t, f)
      [] f.fn = "removeRecursive" -> RemoveRecursive(m, t, f)
      [] f.fn = "traverse" -> Traverse(m, t, f)
      [] f.fn = "navigate" -> Navigate(m, t, f)
      [] f.fn = "explainTraverseCurrent" -> ExplainTraverseCurrent(m, t, f)
      [] f.fn = "explainTraverseLeft" -> ExplainTraverseLeft(m, t, f)
      [] f.fn = "explainTraverseRight" -> ExplainTraverseRight(m, t, f)

\* Task t runs until it awaits an unresolved promise, throws, or its
\* outermost function returns.
Run(m, t) ==
    IF m.tasks[t].wait # "run" THEN m
    ELSE IF m.tasks[t].stack = <<>> THEN [m EXCEPT !.tasks[t] = NoTask]
    ELSE Run(Step(m, t), t)

Idle(m) == m.tasks[MAIN] = NoTask

----------------------------------------------------------------------------
(* Unreferenced objects *)

RECURSIVE Trace(_, _, _)
\* Visit, also following the parent link of nodes that keep one.
Trace(h, n, acc) ==
    IF n = NULL \/ \E i \in 1..Len(acc) : acc[i] = n
    THEN acc
    ELSE Trace(h, h[n].parent,
               Trace(h, h[n].rightChild, Trace(h, h[n].leftChild, Append(acc, n))))

RECURSIVE TraceAll(_, _, _)
TraceAll(h, refs, acc) ==
    IF refs = <<>> THEN acc
    ELSE TraceAll(h, Tail(refs), Trace(h, Head(refs), acc))

RECURSIVE StackRefs(_)
StackRefs(stack) ==
    IF stack = <<>> THEN <<>>
    ELSE <<Head(stack).node, Head(stack).n2, Head(stack).n3>> \o StackRefs(Tail(stack))

RECURSIVE TaskRefs(_, _)
TaskRefs(m, t) ==
    IF t > MaxTasks THEN <<>>
    ELSE StackRefs(m.tasks[t].stack) \o TaskRefs(m, t + 1)

\* The objects no reference leads to are dropped and the others renumbered
\* in the order a walk from the root, then from the frames, meets them: two
\* heaps that differ only in addresses are the same heap.
Collect(m) ==
    LET order == TraceAll(m.heap,
                          <<m.root>> \o TaskRefs(m, 1) \o m.highlightedNodes, <<>>)
        ren(n) == IF n = NULL THEN NULL
                  ELSE CHOOSE i \in 1..Len(order) : order[i] = n
        cell(i) == LET c == m.heap[order[i]] IN
                   [c EXCEPT !.parent = ren(@), !.leftChild = ren(@),
                             !.rightChild = ren(@)]
        frame(f) == [f EXCEPT !.node = ren(@), !.n2 = ren(@), !.n3 = ren(@)]
    IN  [m EXCEPT
            !.heap = [i \in 1..Len(order) |-> cell(i)],
            !.root = ren(@),
            !.highlightedNodes = [i \in 1..Len(@) |-> ren(@[i])],
            !.highlightColour =
                {ren(n) : n \in {x \in @ : \E i \in 1..Len(order) : order[i] = x}},
            !.tasks = [t \in TaskIds |->
                [m.tasks[t] EXCEPT !.stack =
                    [i \in 1..Len(m.tasks[t].stack) |-> frame(m.tasks[t].stack[i])]]]]

\* What is left when a stretch has run: a detached call that threw is gone;
\* once the operation has returned, so are the calls whose promise can never
\* resolve, and the unreferenced objects.
Settle(m) ==
    LET m1 == [m EXCEPT !.tasks = [t \in TaskIds |->
                   IF t # MAIN /\ ( m.tasks[t].wait = "thrown"
                                    \/ (Idle(m) /\ m.tasks[t].wait = "lost") )
                   THEN NoTask ELSE m.tasks[t]]]
    IN  IF Idle(m1) THEN Collect(m1) ELSE m1

Apply(m) ==
    /\ heap' = m.heap
    /\ root' = m.root
    /\ size' = m.size
    /\ numOperations' = m.numOperations
    /\ variant' = m.variant
    /\ tasks' = m.tasks
    /\ timers' = m.timers
    /\ explaining' = m.explaining
    /\ explanationPromise' = m.explanationPromise
    /\ explanationTitle' = m.explanationTitle
    /\ explanationTerminal' = m.explanationTerminal
    /\ items' = m.items
    /\ treeOperating' = m.treeOperating
    /\ yielded' = m.yielded
    /\ issued' = m.issued
    /\ highlightedNodes' = m.highlightedNodes
    /\ highlightColour' = m.highlightColour
    /\ op' = m.op

\* The promise task t awaits resolves: AbstractTree.explainStep returns and
\* the task runs on.
Resume(m, t) == Settle(Run(Unhighlight([m EXCEPT !.tasks[t].wait = "run"]), t))

----------------------------------------------------------------------------
(* Actions *)

Init ==
    /\ heap = <<NullNode>>
    /\ root = 1
    /\ size = 0
    /\ numOperations = 0
    /\ variant \in {"naiveTree", "redBlackTree"}
    /\ tasks = [t \in TaskIds |-> NoTask]
    /\ timers = <<>>
    /\ explaining = FALSE
    /\ explanationPromise = NULL
    /\ explanationTitle = ""
    /\ explanationTerminal = FALSE
    /\ items = <<>>
    /\ treeOperating = FALSE
    /\ yielded = <<>>
    /\ issued = <<>>
    /\ highlightedNodes = <<>>
    /\ highlightColour = {}
    /\ op = NoOp

\* A caller starts an operation on the tree, the channel being in
\* explaining mode or not.
Begin(kind, item, explain) ==
    LET m0 == [Machine EXCEPT
                  !.explaining = explain,
                  !.yielded = <<>>, !.issued = <<>>,
                  !.op = [kind |-> kind, item |-> item,
                          before |-> InOrderOf(heap, root), done |-> FALSE,
                          held |-> op.held],
                  !.tasks[MAIN] = [stack |-> <<Frame("caller", NULL, NULL, NULL, item, kind)>>,
                                   wait |-> "run"]]
    IN  Apply(Settle(Run(m0, MAIN)))

\* addItem(item) of an item that is not in the tree
CallAddItem ==
    \E item \in Values, explain \in BOOLEAN :
        /\ Idle(Machine)
        /\ item \notin ValuesIn(heap, root)
        /\ Cardinality(RealNodes(heap, root)) < MaxSize
        /\ size < MaxSize
        /\ Begin("add", item, explain)

\* removeItem(item) of an item that is in the tree
CallRemoveItem ==
    \E item \in Values, explain \in BOOLEAN :
        /\ Idle(Machine)
        /\ item \in ValuesIn(heap, root)
        /\ Begin("remove", item, explain)

\* addItem(item) of an item that is not in the tree and, once it has
\* returned, removeItem(item)
CallAddRemove ==
    \E item \in Values, explain \in BOOLEAN :
        /\ Idle(Machine)
        /\ item \notin ValuesIn(heap, root)
        /\ Cardinality(RealNodes(heap, root)) < MaxSize
        /\ size < MaxSize
        /\ Begin("addRemove", item, explain)

Orders == {"pre", "in", "post"}

\* A traversal, consumed to its end
CallTraverse ==
    \E order \in Orders, explain \in BOOLEAN :
        /\ Idle(Machine)
        /\ Begin(order, 0, explain)

\* A traversal of a tree that is not empty, abandoned once it has yielded
\* the first count of its values
CallTraversePartly ==
    \E kind \in PartialKinds, explain \in BOOLEAN :
        \E count \in 1..Cardinality(RealNodes(heap, root)) :
            /\ Idle(Machine)
            /\ Begin(kind, count, explain)

\* RedBlackTree.rotateLeft(A) for a node A whose right child holds a value,
\* then rotateRight of that child; or rotateRight(A) for a node A whose left
\* child holds a value, then rotateLeft of that child.
CallRotations ==
    \E kind \in RotationPairs, explain \in BOOLEAN :
        \E a \in RealNodes(heap, root) :
            /\ Idle(Machine)
            /\ variant = "redBlackTree"
            /\ ~IsNull(heap, IF kind = "rotateLeftRight" THEN heap[a].rightChild
                             ELSE heap[a].leftChild)
            /\ LET m0 == [Machine EXCEPT
                          !.explaining = explain,
                          !.yielded = <<>>, !.issued = <<>>,
                          !.op = [kind |-> kind, item |-> heap[a].value,
                                  before |-> <<Snapshot(Machine)>>,
                                  done |-> FALSE, held |-> op.held],
                          !.tasks[MAIN] =
                              [stack |-> <<Frame("caller", NULL, NULL, NULL,
                                                 heap[a].value, kind)>>,
                               wait |-> "run"]]
               IN  Apply(Settle(Run(m0, MAIN)))

\* A call that does not keep its precondition starts.
BeginUnchecked(kind, item, explain) ==
    LET m0 == [Machine EXCEPT
                  !.explaining = explain,
                  !.yielded = <<>>, !.issued = <<>>,
                  !.op = [kind |-> kind, item |-> item,
                          before |-> <<Snapshot(Machine)>>, done |-> FALSE,
                          held |-> op.held],
                  !.tasks[MAIN] = [stack |-> <<Frame("caller", NULL, NULL, NULL, item, kind)>>,
                                   wait |-> "run"]]
    IN  Apply(Settle(Run(m0, MAIN)))

\* removeItem(item) of an item that is not in the tree
CallRemoveAbsent ==
    \E item \in Values, explain \in BOOLEAN :
        /\ Idle(Machine)
        /\ item \notin ValuesIn(heap, root)
        /\ size >= 0
        /\ BeginUnchecked("removeAbsent", item, explain)

\* addItem(item) of an item that is in the tree
CallAddPresent ==
    \E item \in Values, explain \in BOOLEAN :
        /\ Idle(Machine)
        /\ item \in ValuesIn(heap, root)
        /\ Cardinality(RealNodes(heap, root)) < MaxSize
        /\ size < MaxSize
        /\ BeginUnchecked("addPresent", item, explain)

\* removeItem(item) of an item that is in the NaiveTree
CallRemoveItemRecorded ==
    \E item \in Values, explain \in BOOLEAN :
        /\ Idle(Machine)
        /\ variant = "naiveTree"
        /\ item \in ValuesIn(heap, root)
        /\ BeginUnchecked("removeRecorded", item, explain)

\* The lists of distinct items a tree is constructed with: one insertion
\* runs as a task of its own for each.
ItemLists ==
    { l \in UNION { [1..n -> Values] : n \in 1..(MaxTasks - 1) } :
        \A i, j \in 1..Len(l) : i # j => l[i] # l[j] }

RECURSIVE ForEachAddItem(_, _)
\* items.forEach(item => this.addItem(item)) in the constructor of
\* AbstractTree: no call is awaited.  The constructor of the subclass has
\* not yet assigned this.RED, so that new BinaryTreeNode(item, this.RED)
\* takes the default colour.
ForEachAddItem(m, list) ==
    IF list = <<>> THEN m
    ELSE ForEachAddItem(
             RunDetached(m, IF m.variant = "naiveTree"
                            THEN Frame("NaiveTree.addItem", NULL, NULL, NULL,
                                       Head(list), FALSE)
                            ELSE Frame("RedBlackTree.addItem", NULL, NULL, NULL,
                                       Head(list), TRUE)),
             Tail(list))

\* new NaiveTree(explain, list) or new RedBlackTree(explain, list), the
\* channel resuming every step after its delay
CallConstruct ==
    \E list \in ItemLists :
        /\ \A t \in TaskIds : tasks[t] = NoTask
        /\ LET m0 == [Reset(Machine) EXCEPT
                      !.explaining = FALSE,
                      !.yielded = <<>>, !.issued = <<>>,
                      !.highlightedNodes = <<>>,
                      !.op = [kind |-> "construct", item |-> 0, before |-> list,
                              done |-> FALSE, held |-> {}]]
           IN  Apply(Settle(ForEachAddItem(m0, list)))

\* A handler of the store starts: the sidebar's controls are disabled while
\* treeOperating.
BeginStore(frame, kind, item) ==
    LET m0 == [Machine EXCEPT
                  !.issued = <<>>,
                  !.op = [kind |-> kind, item |-> item,
                          before |-> InOrderOf(heap, root), done |-> FALSE,
                          held |-> op.held],
                  !.tasks[MAIN] = [stack |-> <<frame>>, wait |-> "run"]]
    IN  Apply(Settle(Run(m0, MAIN)))

\* Sidebar: an item is entered; addItem(item) for an item not in items
StoreCallAddItem ==
    \E item \in Values, explainAdd \in BOOLEAN :
        /\ ~treeOperating
        /\ Idle(Machine)
        /\ \A i \in 1..Len(items) : items[i] # item
        /\ Len(items) < MaxSize
        /\ Cardinality(RealNodes(heap, root)) < MaxSize
        /\ size < MaxSize
        /\ BeginStore(Frame("ApplicationStore.addItem", NULL, NULL, NULL, item, explainAdd),
                      "add", item)

\* TreeItem: the remove button of the item at index
StoreCallRemoveItemAtIndex ==
    \E index \in 1..Len(items), explainRemove \in BOOLEAN :
        /\ ~treeOperating
        /\ Idle(Machine)
        /\ BeginStore(Frame("ApplicationStore.removeItemAtIndex", NULL, NULL, NULL,
                            index, explainRemove),
                      "remove", items[index])

\* Sidebar: one of the traversal buttons
StoreCallTraverse ==
    \E order \in Orders, explainTraverse \in BOOLEAN :
        /\ ~treeOperating
        /\ Idle(Machine)
        /\ BeginStore(Frame("ApplicationStore.traverse", NULL, NULL, NULL, 0,
                            <<order, explainTraverse>>),
                      order, 0)

\* Sidebar: the Clear button, disabled while treeOperating and while the
\* tree's size is 0
StoreCallClearTree ==
    /\ ~treeOperating
    /\ size # 0
    /\ Apply(Settle(ClearTree([Machine EXCEPT
                 !.issued = <<>>,
                 !.op = [kind |-> "clear", item |-> 0,
                         before |-> InOrderOf(heap, root), done |-> TRUE,
                         held |-> {}]])))

\* Sidebar: an item that is in items is entered; addItem(item)
StoreCallAddDuplicate ==
    \E item \in Values, explainAdd \in BOOLEAN :
        /\ ~treeOperating
        /\ Idle(Machine)
        /\ \E i \in 1..Len(items) : items[i] = item
        /\ BeginStore(Frame("ApplicationStore.addItem", NULL, NULL, NULL, item, explainAdd),
                      "addDuplicate", item)

\* Another tab is selected while no control is disabled and every call the
\* old tree has made has returned: changeTreeType(newTabId, prevTabId).  On
\* the tab avlTree the items are added again to the tree that holds them.
StoreCallChangeTreeType ==
    \E newTabId \in Tabs, explainAdd \in BOOLEAN :
        /\ ~treeOperating
        /\ \A t \in TaskIds : tasks[t] = NoTask
        /\ newTabId = "avlTree" => size + Len(items) <= MaxSize
        /\ LET m0 == [Machine EXCEPT
                      !.issued = <<>>,
                      !.op = [kind |-> "changeTreeType", item |-> 0,
                              before |-> items, done |-> FALSE, held |-> {}],
                      !.tasks[MAIN] =
                          [stack |-> <<Frame("ApplicationStore.changeTreeType", NULL,
                                             NULL, NULL, 0,
                                             [newTabId |-> newTabId,
                                              explainAdd |-> explainAdd,
                                              oldItems |-> <<>>])>>,
                           wait |-> "run"]]
           IN  Apply(Settle(Run(m0, MAIN)))

\* A setTimeout callback of ApplicationStore.explainStep fires.
TimerFires ==
    /\ timers # <<>>
    /\ Apply(Resume([Machine EXCEPT !.timers = Tail(@)], Head(timers)))

SETTLED == MaxTasks + 1

\* ExplanationPane.nextStep(continueAnimation): the pane is displayed while
\* explaining; on a terminal step its only button passes false.
NextStep ==
    \E continueAnimation \in BOOLEAN :
        /\ explaining
        /\ explanationPromise # NULL
        /\ explanationTerminal => ~continueAnimation
        /\ LET t == explanationPromise
               m0 == [Machine EXCEPT !.explaining = continueAnimation,
                                     !.explanationPromise = SETTLED]
           IN  IF t \in TaskIds /\ tasks[t].wait = "user"
               THEN Apply(Resume(m0, t))
               ELSE Apply(m0)

\* Direct callers of the tree: insertions of absent items, removals of
\* present ones, traversals.
Next == CallAddItem \/ CallRemoveItem \/ CallAddRemove \/ CallTraverse \/ TimerFires \/ NextStep

Spec == Init /\ [][Next]_vars

\* The same, with traversals that are abandoned part-way.
NextTrav == Next \/ CallTraversePartly

SpecTrav == Init /\ [][NextTrav]_vars

\* The same, with pairs of opposite rotations applied to the tree.
NextRot == Next \/ CallRotations

SpecRot == Init /\ [][NextRot]_vars

\* Direct callers that do not keep the preconditions of addItem and
\* removeItem.
NextUnchecked == Next \/ CallRemoveAbsent \/ CallAddPresent

SpecUnchecked == Init /\ [][NextUnchecked]_vars

\* Insertions, and removals from the NaiveTree of which the tree before and
\* after is kept.
NextRecorded == CallAddItem \/ CallRemoveItemRecorded \/ TimerFires \/ NextStep

SpecRecorded == Init /\ [][NextRecorded]_vars

\* Trees constructed from lists of items, every step of the insertions
\* resumed by its timer.
NextConstruct == CallConstruct \/ TimerFires

SpecConstruct == Init /\ [][NextConstruct]_vars

\* Insertions into the empty tree and traversals only.
NextIns == CallAddItem \/ CallTraverse \/ TimerFires \/ NextStep

SpecIns == Init /\ [][NextIns]_vars

\* The application: every operation goes through the store.
NextStore ==
    StoreCallAddItem \/ StoreCallRemoveItemAtIndex \/ StoreCallTraverse \/ TimerFires \/ NextStep

SpecStore == Init /\ [][NextStore]_vars

\* The application with its Clear button.
NextClear == NextStore \/ StoreCallClearTree

SpecClear == Init /\ [][NextClear]_vars

\* The application with every handler of the store.
NextApp == NextClear \/ StoreCallAddDuplicate \/ StoreCallChangeTreeType

SpecApp == Init /\ [][NextApp]_vars

\* A setTimeout callback that is due runs, and the user presses a button of
\* the explanation pane while it is displayed.
SpecStoreFair == SpecStore /\ WF_vars(TimerFires) /\ WF_vars(NextStep)

----------------------------------------------------------------------------
(* Properties *)

RECURSIVE BlackHeight(_, _, _)
\* The number of BLACK nodes on every path from n down to a sentinel, the
\* sentinel counted; -1 when two paths differ.
BlackHeight(h, n, fuel) ==
    IF fuel = 0 THEN -1
    ELSE IF IsNull(h, n) THEN 1
    ELSE LET l == BlackHeight(h, h[n].leftChild, fuel - 1)
             r == BlackHeight(h, h[n].rightChild, fuel - 1)
         IN  IF l < 0 \/ r < 0 \/ l # r THEN -1
             ELSE l + (IF h[n].colour = BLACK THEN 1 ELSE 0)

NoRedRed(h, r) ==
    \A n \in RealNodes(h, r) :
        h[n].colour = RED =>
            h[h[n].leftChild].colour = BLACK /\ h[h[n].rightChild].colour = BLACK

RedBlack(h, r) ==
    /\ h[r].colour = BLACK
    /\ NoRedRed(h, r)
    /\ BlackHeight(h, r, Len(h)) >= 0

Ordered(h, r) ==
    \A n \in RealNodes(h, r) :
        /\ \A v \in ValuesIn(h, h[n].leftChild) : v < h[n].value
        /\ \A v \in ValuesIn(h, h[n].rightChild) : v > h[n].value

Ascending(s) == \A i \in 1..Len(s) - 1 : s[i] < s[i + 1]

Outstanding == {t \in TaskIds : tasks[t].wait \in {"user", "timer", "lost"}}

\* C1: in a RedBlackTree grown from empty by insertions of distinct items,
\* when an addItem has returned the root is BLACK, no RED node has a RED
\* child, and every path from the root to a sentinel holds the same number
\* of BLACK nodes.
C1_RedBlackAfterAddItem ==
    (variant = "redBlackTree" /\ op.kind = "add" /\ op.done) => RedBlack(heap, root)

\* An addItem(2) into the tree of 1, 3, 4 has returned, a rotation has made
\* 3 the root, and there is a RED node.
C1_Witness ==
    /\ variant = "redBlackTree" /\ op.kind = "add" /\ op.done
    /\ op.item = 2 /\ op.before = <<1, 3, 4>>
    /\ heap[root].value = 3
    /\ \E n \in RealNodes(heap, root) : heap[n].colour = RED

\* C2: when a RedBlackTree.removeItem of an item in the tree has returned,
\* the root is BLACK, no RED node has a RED child, and every path from a
\* node to a sentinel below it holds the same number of BLACK nodes.
C2_RedBlackAfterRemoveItem ==
    (variant = "redBlackTree" /\ op.kind = "remove" /\ op.done) => RedBlack(heap, root)

\* C3: for both trees, after insertions of distinct items into the empty
\* tree, traverseInOrder consumed to its end has yielded the inserted items,
\* each once, in strictly ascending order.
C3_InOrderAscending ==
    (op.kind = "in" /\ op.done) =>
        /\ Ascending(yielded)
        /\ Range(yielded) = op.held
        /\ Len(yielded) = Cardinality(op.held)

\* An in-order traversal of a tree of MaxSize items, whose root does not
\* hold the least of them, has returned.
C3_Witness ==
    /\ op.kind = "in" /\ op.done
    /\ Len(yielded) = MaxSize
    /\ heap[root].value # yielded[1]
    /\ Cardinality(op.held) = MaxSize

\* C4: for both trees, when no operation is in flight, each node's value is
\* greater than every value in its left subtree and smaller than every value
\* in its right subtree.
C4_OrderedWhenIdle == Idle(Machine) => Ordered(heap, root)

\* A removeItem of the second of four items has returned and the third,
\* its successor, is at the root.
C4_Witness ==
    /\ Idle(Machine) /\ op.kind = "remove" /\ op.done
    /\ Len(op.before) = 4 /\ op.item = op.before[2]
    /\ heap[root].value = op.before[3]
    /\ ~isLeaf(heap, root)

\* C5: for both trees, when a removeItem(v) of an item in the tree has
\* returned, the values in the tree are those at the call without v.
C5_RemovesExactlyTheItem ==
    (op.kind = "remove" /\ op.done) =>
        ValuesIn(heap, root) = Range(op.before) \ {op.item}

\* C6: for both trees, when an operation has returned, size is the number
\* of nodes that hold a value, which is the number of distinct values held.
C6_SizeCountsNodes ==
    op.done =>
        /\ size = Cardinality(RealNodes(heap, root))
        /\ size = Cardinality(ValuesIn(heap, root))

\* C7: for both trees, when addItem of an item not in the tree and then
\* removeItem of that item have returned, the in-order sequence of the tree
\* is the one before the addItem.
C7_AddRemoveRoundTrip ==
    (op.kind = "addRemove" /\ op.done) => InOrderOf(heap, root) = op.before

\* C8: at most one explanation step is outstanding at any moment: no call
\* chain issues a step, or changes the tree, while another awaits its own.
C8_OneStepOutstanding == Cardinality(Outstanding) <= 1

\* C9: every promise ApplicationStore.explainStep returns is resolved: none
\* has its resolver replaced in explanationPromise before it was called.
C9_EveryTokenResolved == \A t \in TaskIds : tasks[t].wait # "lost"

\* C10: an operation the store has started and not yet seen return is
\* awaiting an explanation step that a timer or a button of the pane will
\* resume: it has not aborted with an exception, so that it returns, and
\* treeOperating is false again, once its steps have been resumed.
C10_OperationReturns == treeOperating => tasks[MAIN].wait \in {"user", "timer"}

RECURSIVE WalkPre(_, _, _)
\* The values below n: n's own, then its left subtree's, then its right's.
WalkPre(h, n, fuel) ==
    IF fuel = 0 \/ n = NULL \/ IsNull(h, n) THEN <<>>
    ELSE <<h[n].value>> \o WalkPre(h, h[n].leftChild, fuel - 1)
                        \o WalkPre(h, h[n].rightChild, fuel - 1)

RECURSIVE WalkPost(_, _, _)
\* The values below n: its left subtree's, its right subtree's, then n's own.
WalkPost(h, n, fuel) ==
    IF fuel = 0 \/ n = NULL \/ IsNull(h, n) THEN <<>>
    ELSE WalkPost(h, h[n].leftChild, fuel - 1)
             \o WalkPost(h, h[n].rightChild, fuel - 1) \o <<h[n].value>>

\* C11: a traversal consumed to its end has yielded, for traversePreOrder,
\* each node's value, then its left subtree's values, then its right
\* subtree's; for traversePostOrder left subtree, right subtree, node; for
\* traverseInOrder left subtree, node, right subtree; every node's value
\* once.
C11_CanonicalOrders ==
    (op.kind \in Orders /\ op.done) =>
        /\ op.kind = "pre" => yielded = WalkPre(heap, root, Len(heap))
        /\ op.kind = "in" => yielded = Walk(heap, root, Len(heap))
        /\ op.kind = "post" => yielded = WalkPost(heap, root, Len(heap))
        /\ Len(yielded) = Cardinality(RealNodes(heap, root))
        /\ Range(yielded) = ValuesIn(heap, root)

\* A pre-order traversal of a tree of four nodes whose root has two
\* children has returned, and its sequence is not the in-order one.
C11_Witness ==
    /\ op.kind = "pre" /\ op.done
    /\ Len(yielded) = 4
    /\ ~IsNull(heap, heap[root].leftChild) /\ ~IsNull(heap, heap[root].rightChild)
    /\ yielded # op.before

TraversalKinds == Orders \cup PartialKinds

\* C12: every step of a traversal, consumed to its end or abandoned after
\* any number of values, leaves size, root, and every node's links, value and
\* colour as they were.
C12_TraversalReadOnly ==
    [][op'.kind \in TraversalKinds => UNCHANGED <<heap, root, size>>]_vars

\* A traversal of a tree of four nodes has been abandoned after two values.
C12_Witness ==
    /\ op.kind \in PartialKinds /\ op.done /\ Idle(Machine)
    /\ Len(yielded) = 2
    /\ Cardinality(RealNodes(heap, root)) = 4

\* C13: when rotateLeft(A) and then rotateRight of A's old right child have
\* returned, or rotateRight(A) and then rotateLeft of A's old left child,
\* the root, the values, both child links of every node and the parent link
\* of every node that holds a value are what they were at the call.
C13_RotationRoundTrip ==
    (op.kind \in RotationPairs /\ op.done) =>
        /\ op.before[2].root = op.before[1].root
        /\ op.before[2].heap = op.before[1].heap

C13_Witness ==
    /\ op.kind = "rotateLeftRight" /\ op.done
    /\ Len(op.before) = 2
    /\ op.item # heap[root].value
    /\ Cardinality(RealNodes(heap, root)) = 4

RECURSIVE Paths(_, _, _)
\* The number of paths through child links that start at n, at most fuel
\* links long (every one of them when fuel is left over on each).
Paths(h, n, fuel) ==
    IF n = NULL THEN 0
    ELSE IF fuel = 0 THEN 1
    ELSE 1 + Paths(h, h[n].leftChild, fuel - 1) + Paths(h, h[n].rightChild, fuel - 1)

\* Every node that holds a value has two children, every null terminator
\* none.
OwnsChildren(h, r) ==
    \A n \in Reachable(h, r) :
        IF IsNull(h, n)
        THEN h[n].leftChild = NULL /\ h[n].rightChild = NULL
        ELSE h[n].leftChild # NULL /\ h[n].rightChild # NULL

\* One path leads from r to each node it reaches: no node is shared and no
\* link leads back up.
IsTree(h, r) == Paths(h, r, Len(h)) = Cardinality(Reachable(h, r))

\* C14: whenever no operation is in flight, every node reachable from the
\* root that holds a value has two children (nodes or null terminators),
\* every reachable null terminator has none, and the child links form a
\* tree.
C14_ShapeWhenIdle == Idle(Machine) => OwnsChildren(heap, root) /\ IsTree(heap, root)

C14_Witness ==
    /\ Idle(Machine) /\ op.kind = "remove" /\ op.done
    /\ variant = "redBlackTree"
    /\ Cardinality(RealNodes(heap, root)) = 3
    /\ Cardinality(Reachable(heap, root)) = 7

\* The parent link of the root is null, and that of every other node that
\* holds a value is the one node that has it as a child.
ParentsAgree(h, r) ==
    /\ h[r].parent = NULL
    /\ \A n \in RealNodes(h, r) \ {r} :
           /\ h[n].parent \in Reachable(h, r)
           /\ n \in {h[h[n].parent].leftChild, h[h[n].parent].rightChild}
           /\ \A p \in Reachable(h, r) :
                  n \in {h[p].leftChild, h[p].rightChild} => p = h[n].parent

\* C15: once an addItem or a removeItem has returned, the parent of the root
\* is null and the parent of every other reachable node that holds a value
\* is the unique node it is a child of.
C15_ParentsAfterOperation ==
    (Idle(Machine) /\ op.kind \in {"add", "remove", "addRemove"} /\ op.done)
        => ParentsAgree(heap, root)

C15_Witness ==
    /\ Idle(Machine) /\ op.kind = "remove" /\ op.done
    /\ Cardinality(RealNodes(heap, root)) = 3
    /\ ~isLeaf(heap, root)
    /\ ParentsAgree(heap, root)

\* C16: in every state, between the steps of an operation too, every node
\* without a value is BLACK.
C16_SentinelsBlack ==
    \A n \in 1..Len(heap) : IsNull(heap, n) => heap[n].colour = BLACK

C16_Witness ==
    /\ ~Idle(Machine)
    /\ op.kind = "remove"
    /\ \E i \in 1..Len(tasks[MAIN].stack) :
           /\ tasks[MAIN].stack[i].fn = "rebalanceBlackCluster"
           /\ tasks[MAIN].stack[i].pc = "recolour"
    /\ C16_SentinelsBlack

\* C17: no step of the application makes numOperations smaller: not an
\* insert, a remove, a traversal, a step of an explanation, nor the reset
\* that clearTree calls.
C17_NumOperationsNeverDecreases == [][numOperations' >= numOperations]_vars

\* The nodes a recorded tree reaches from its root, each with its value,
\* colour, parent and children.
TreeOf(s) == [n \in Reachable(s.heap, s.root) |-> s.heap[n]]

\* The tree at the return of the last call is the tree at that call: the
\* same root, reaching the same nodes, each with the value, colour, parent
\* and children it had.
SameTree ==
    /\ op.before[2].root = op.before[1].root
    /\ TreeOf(op.before[2]) = TreeOf(op.before[1])

\* The number of nodes of the tree at the return of the last call that hold
\* a value.
NodesAtReturn == Cardinality(RealNodes(op.before[2].heap, op.before[2].root))

\* C18: when RedBlackTree.removeItem of an item that is not in the tree
\* has returned, size, root, every child and parent link, every value and
\* every colour are what they were at the call, and the last step
\* explained is the terminal step "Null node".
C18_AbsentRemoveNoOp ==
    (variant = "redBlackTree" /\ op.kind = "removeAbsent" /\ op.done) =>
        /\ SameTree
        /\ op.before[2].size = op.before[1].size
        /\ explanationTerminal
        /\ explanationTitle = "Null node"

C18_Witness ==
    /\ variant = "redBlackTree" /\ op.kind = "removeAbsent" /\ op.done
    /\ Len(op.before) = 2
    /\ NodesAtReturn = 3
    /\ op.before[2].size = 3
    /\ explanationTitle = "Null node"

\* The number of nodes of the tree at the last call that hold a value.
NodesAtCall == Cardinality(RealNodes(op.before[1].heap, op.before[1].root))

\* C19: when NaiveTree.removeItem of an item that is not in the tree has
\* returned, called on a tree whose size was its number of nodes, the shape
\* and the values are what they were and size is still the number of nodes
\* that hold a value.
C19_NaiveAbsentRemoveNoOp ==
    ( /\ variant = "naiveTree" /\ op.kind = "removeAbsent" /\ op.done
      /\ op.before[1].size = NodesAtCall )
        => SameTree /\ op.before[2].size = NodesAtReturn

\* C20: when NaiveTree.addItem of an item that is in the tree has returned,
\* called on a tree whose size was its number of nodes, no node has been
\* added, the shape and the values are what they were, and size is what it
\* was, the number of nodes that hold a value.
C20_NaiveDuplicateAddNoOp ==
    ( /\ variant = "naiveTree" /\ op.kind = "addPresent" /\ op.done
      /\ op.before[1].size = NodesAtCall )
        => /\ SameTree
           /\ op.before[2].size = op.before[1].size
           /\ op.before[2].size = NodesAtReturn

C22_ChangeTreeTypeKeepsItems ==
    (op.kind = "changeTreeType" /\ op.done) =>
        /\ ValuesIn(heap, root) = Range(op.before)
        /\ Cardinality(RealNodes(heap, root)) = Len(op.before)
        /\ size = Len(op.before)
        /\ items = op.before

\* C23: when a tree has been constructed with a list of distinct items and
\* every step of the insertions the constructor started has been resumed,
\* the tree holds every item of the list in one node, is ordered, and its
\* size is the length of the list.
C23_ConstructorAddsAll ==
    (op.kind = "construct" /\ \A t \in TaskIds : tasks[t] = NoTask) =>
        /\ ValuesIn(heap, root) = Range(op.before)
        /\ Cardinality(RealNodes(heap, root)) = Len(op.before)
        /\ Ordered(heap, root)
        /\ size = Len(op.before)

\* C24: ApplicationStore.addItem of a value that items already holds does
\* not call tree.addItem: it leaves items, the tree, its size and
\* treeOperating as they were, starts no task and emits no step; and items
\* never holds the same value twice.
C24_DuplicateAddIgnored ==
    /\ [][(op'.kind = "addDuplicate" /\ op' # op) =>
            /\ op'.done
            /\ items' = items
            /\ heap' = heap /\ root' = root /\ size' = size
            /\ treeOperating' = treeOperating
            /\ tasks' = tasks /\ timers' = timers
            /\ numOperations' = numOperations
            /\ explanationTitle' = explanationTitle]_vars
    /\ [](\A i, j \in 1..Len(items) : i # j => items[i] # items[j])

C24_Witness ==
    /\ op.kind = "addDuplicate" /\ op.done
    /\ \E i \in 1..Len(items) : items[i] = op.item
    /\ Len(items) >= 2
    /\ ~treeOperating

\* The removal is suspended at the step 'Recolour rotated nodes' of Case 2.
AtRecolourRotated ==
    /\ tasks[MAIN] # NoTask
    /\ tasks[MAIN].wait \in {"timer", "user"}
    /\ Top(Machine, MAIN).fn = "rebalanceRotateRedSibling"
    /\ Top(Machine, MAIN).pc = "recolour"

\* The frame of Case 2 on the stack of the removal
CaseTwoFrame == tasks[MAIN].stack[Len(tasks[MAIN].stack)]

\* C25: when Case 2 of double-black rebalancing applies, the rotation about
\* the parent has completed before the recolouring and before rebalancing is
\* run again on the node: when the removal resumes from 'Recolour rotated
\* nodes', recolours and re-enters Case 1, no rotation is pending, the
\* former sibling is the parent of the node's parent, the former sibling is
\* black and the parent is red.  (No node is changed between the re-entry
\* and the next step the removal awaits.)
C25_RotationBeforeRerun ==
    [][(AtRecolourRotated /\ tasks'[MAIN] # tasks[MAIN]) =>
          LET f == CaseTwoFrame IN
          /\ \A t \in TaskIds \ {MAIN} : tasks[t] = NoTask
          /\ heap'[f.n2].parent = f.n3
          /\ heap'[f.n3].colour = BLACK
          /\ heap'[f.n2].colour = RED]_vars

\* The functions of Cases 2 to 4 of double-black rebalancing
SiblingCases ==
    {"rebalanceRotateRedSibling", "rebalanceBlackCluster",
     "rebalanceAlternatingSiblingBranch"}

\* C26: whenever Cases 2 to 4 of double-black rebalancing are evaluated
\* during the removal of a present value, the node has a parent and its
\* sibling is a real node with two children, so that the colours of the
\* sibling and of its children are read without dereferencing a missing
\* node: no removal has aborted in the test of one of these cases.
C26_SiblingCasesDefined ==
    ~ /\ tasks[MAIN] # NoTask
      /\ tasks[MAIN].wait = "thrown"
      /\ Top(Machine, MAIN).fn \in SiblingCases
      /\ Top(Machine, MAIN).pc = "entry"

\* C27: whenever the deletion of a RedBlackTree takes the branch of a RED
\* node that is not the root (removeLeaf, after the target has been moved to
\* the successor), that node is a leaf: makeNull discards no node below it.
C27_RedNodeRemovedIsLeaf ==
    ( /\ tasks[MAIN] # NoTask
      /\ Top(Machine, MAIN).fn = "removeLeaf"
      /\ Top(Machine, MAIN).pc = "remove"
      /\ Top(Machine, MAIN).node # root
      /\ heap[Top(Machine, MAIN).node].colour = RED )
    => isLeaf(heap, Top(Machine, MAIN).node)

\* The removal is suspended at the step 'Promote minimum greater value' of
\* spliceNode: the node to delete has two real children.
AtPromote ==
    /\ tasks[MAIN] # NoTask
    /\ tasks[MAIN].wait \in {"timer", "user"}
    /\ Top(Machine, MAIN).fn = "spliceNode"
    /\ Top(Machine, MAIN).pc = "promote"

\* The frame of spliceNode once the removal has resumed
SpliceFrameAfter == tasks'[MAIN].stack[Len(tasks[MAIN].stack)]

\* C28 as stated: when the node to delete has two real children, the
\* deletion copies the value and the colour of the in-order successor into
\* it, then continues on the successor, which has at most one real child.
C28_CopiesValueAndColour ==
    [][(AtPromote /\ tasks'[MAIN] # tasks[MAIN]) =>
          LET f == Top(Machine, MAIN) IN
          /\ heap'[f.node].value = heap[f.n2].value
          /\ heap'[f.node].colour = heap[f.n2].colour
          /\ SpliceFrameAfter.node = f.n2
          /\ ~(   ~IsNull(heap', heap'[f.n2].leftChild)
                /\ ~IsNull(heap', heap'[f.n2].rightChild) )]_vars

\* C28, amended: when the node to delete has two real children, the
\* deletion copies the value of the in-order successor into it and leaves
\* its colour and every other node as they are, then continues on the
\* successor, which has at most one real child.
C28_CopiesValueOnly ==
    [][(AtPromote /\ tasks'[MAIN] # tasks[MAIN]) =>
          LET f == Top(Machine, MAIN) IN
          /\ heap' = [heap EXCEPT ![f.node].value = heap[f.n2].value]
          /\ heap'[f.node].colour = heap[f.node].colour
          /\ SpliceFrameAfter.node = f.n2
          /\ ~(   ~IsNull(heap', heap'[f.n2].leftChild)
                /\ ~IsNull(heap', heap'[f.n2].rightChild) )]_vars

\* The removal continues on the successor, whose value the node to delete
\* now holds under a colour that is not the successor's.
C28_Witness ==
    /\ tasks[MAIN] # NoTask
    /\ \E k \in 1..Len(tasks[MAIN].stack) :
         LET f == tasks[MAIN].stack[k] IN
         /\ f.fn = "spliceNode" /\ f.n2 # NULL /\ f.node = f.n2
         /\ \E x \in RealNodes(heap, root) \ {f.n2} :
              /\ heap[x].value = heap[f.n2].value
              /\ heap[x].colour # heap[f.n2].colour

\* The removal is suspended at the step 'Colour promoted node black' of
\* spliceNode: the node to delete is BLACK, not the root, and its defined
\* child (the frame's n3) is RED.
AtColourPromoted ==
    /\ tasks[MAIN] # NoTask
    /\ tasks[MAIN].wait \in {"timer", "user"}
    /\ Top(Machine, MAIN).fn = "spliceNode"
    /\ Top(Machine, MAIN).pc = "colour"

\* The tree as it was before the child was promoted: the node to delete
\* back under its parent, above its child.
BeforePromotion ==
    LET f == Top(Machine, MAIN)
        parent == heap[f.node].parent
        h1 == IF heap[parent].leftChild = f.n3
              THEN [heap EXCEPT ![parent].leftChild = f.node]
              ELSE [heap EXCEPT ![parent].rightChild = f.node]
    IN  [h1 EXCEPT ![f.n3].parent = f.node]

\* C29: when the node being deleted from a RedBlackTree is a BLACK node,
\* not the root, whose defined child is RED, the child takes the node's
\* position (the parent's child link points to the child, the child's
\* parent link to the parent) and is coloured BLACK; and if the tree was
\* red-black before the removal, it is red-black once the removal returns.
C29_RedChildPromoted ==
    /\ [](AtColourPromoted =>
            LET f == Top(Machine, MAIN)
                parent == heap[f.node].parent
            IN  /\ parent # NULL
                /\ heap[f.n3].parent = parent
                /\ f.n3 \in {heap[parent].leftChild, heap[parent].rightChild}
                /\ f.node \notin {heap[parent].leftChild, heap[parent].rightChild}
                /\ f.node \notin RealNodes(heap, root))
    /\ [][(AtColourPromoted /\ tasks'[MAIN] # tasks[MAIN]) =>
            LET f == Top(Machine, MAIN) IN
            /\ tasks'[MAIN] = NoTask
            /\ \E x \in RealNodes(heap', root') :
                 heap'[x].value = heap[f.n3].value /\ heap'[x].colour = BLACK
            /\ ValuesIn(heap', root') = ValuesIn(heap, root)
            /\ RedBlack(BeforePromotion, root) => RedBlack(heap', root')]_vars

\* A removal that promoted a RED child has returned, and the tree is
\* red-black.
C29_Witness ==
    /\ op.kind = "remove" /\ op.done
    /\ tasks[MAIN] = NoTask
    /\ explanationTitle = "Colour promoted node black"
    /\ size >= 2
    /\ RedBlack(heap, root)

RECURSIVE Shape(_, _, _)
\* The subtree of n as a value that does not depend on addresses: for each
\* node its value, its colour, the value of its parent and its subtrees.
Shape(h, n, fuel) ==
    IF fuel = 0 \/ n = NULL \/ IsNull(h, n) THEN <<>>
    ELSE <<h[n].value, h[n].colour,
           IF h[n].parent = NULL THEN NULL ELSE h[h[n].parent].value,
           Shape(h, h[n].leftChild, fuel - 1),
           Shape(h, h[n].rightChild, fuel - 1)>>

\* The frame below the top one on the stack of the operation
Below == tasks[MAIN].stack[Len(tasks[MAIN].stack) - 1]

\* RedBlackTree.addItem is suspended at 'Restore invariants', its new RED
\* node attached under a BLACK parent: rebalance(addedNode) is next.
BeforeFixup ==
    /\ tasks[MAIN] # NoTask
    /\ tasks[MAIN].wait \in {"timer", "user"}
    /\ Top(Machine, MAIN).fn = "RedBlackTree.addItem"
    /\ Top(Machine, MAIN).pc = "restore"
    /\ LET n == Top(Machine, MAIN).node IN
       /\ n # root
       /\ heap[n].colour = RED
       /\ heap[n].parent # NULL
       /\ heap[heap[n].parent].colour = BLACK

\* rebalance(addedNode) is suspended at its step 'Invariants hold'.
InFixup ==
    /\ tasks[MAIN] # NoTask
    /\ tasks[MAIN].wait \in {"timer", "user"}
    /\ Len(tasks[MAIN].stack) >= 2
    /\ Top(Machine, MAIN).fn = "rebalance"
    /\ Top(Machine, MAIN).pc = "done"
    /\ Below.fn = "RedBlackTree.addItem"
    /\ Below.node = Top(Machine, MAIN).node
    /\ explanationTitle = "Invariants hold"

\* C30: when a new RED node has been attached under a BLACK parent, the
\* fixup of the insertion changes no colour, no child link, no parent link
\* and not the root, and it emits exactly one step, a terminal one
\* ('Invariants hold').
C30_BlackParentNoMutation ==
    /\ [][(BeforeFixup /\ tasks'[MAIN] # tasks[MAIN]) =>
            /\ heap' = heap /\ root' = root /\ size' = size
            /\ explanationTitle' = "Invariants hold"
            /\ explanationTerminal'
            /\ InFixup']_vars
    /\ [][(InFixup /\ tasks'[MAIN] # tasks[MAIN]) =>
            /\ Shape(heap', root', MaxSize + 1) = Shape(heap, root, MaxSize + 1)
            /\ size' = size
            /\ \/ tasks'[MAIN] = NoTask
               \/ \A k \in 1..Len(tasks'[MAIN].stack) :
                     tasks'[MAIN].stack[k].fn
                         \notin {"rebalance", "RedBlackTree.addItem"}
            /\ op.kind = "add" =>
                  /\ tasks'[MAIN] = NoTask
                  /\ explanationTitle' = explanationTitle
                  /\ explanationTerminal']_vars

\* The fixup of a node attached under a black parent awaits its one step,
\* in a tree of at least three nodes.
C30_Witness ==
    /\ InFixup
    /\ explanationTerminal
    /\ heap[Top(Machine, MAIN).node].colour = RED
    /\ heap[heap[Top(Machine, MAIN).node].parent].colour = BLACK
    /\ Cardinality(RealNodes(heap, root)) >= 3

\* The children of node n
Children(h, n) == {h[n].leftChild, h[n].rightChild}

\* The rotation about the grandparent, called by the rotation case of the
\* insertion fixup, is suspended at its last step 'Rotation complete'.
AboutGrandparentRotated ==
    /\ tasks[MAIN] # NoTask
    /\ tasks[MAIN].wait \in {"timer", "user"}
    /\ Len(tasks[MAIN].stack) >= 2
    /\ Top(Machine, MAIN).fn \in {"rotateLeft", "rotateRight"}
    /\ Top(Machine, MAIN).pc = "complete"
    /\ Below.fn = "rebalanceDifferingAntecedents"
    /\ Below.pc = "rotated"

\* The rotation case is suspended at its step 'Recolour relocated nodes'.
AtRecolourRelocated ==
    /\ tasks[MAIN] # NoTask
    /\ tasks[MAIN].wait \in {"timer", "user"}
    /\ Top(Machine, MAIN).fn = "rebalanceDifferingAntecedents"
    /\ Top(Machine, MAIN).pc = "recolour"

\* C31: when the insertion fixup takes the rotation case, the node that was
\* the focus's parent when the grandparent was rotated (the original focus
\* in the inside shape, the original parent in the outside shape) takes the
\* grandparent's position, under the grandparent's former parent or as the
\* root, with the former grandparent and the focus as its children; and once
\* the fixup has completed it is BLACK and those two children are RED.
C31_RotationCaseResult ==
    /\ [](AboutGrandparentRotated =>
            LET r == Top(Machine, MAIN)
                d == Below
            IN  /\ r.node = d.n3 /\ r.n2 = d.n2
                /\ heap[d.n2].parent = r.n3
                /\ r.n3 = NULL => root = d.n2
                /\ r.n3 # NULL => /\ root # d.n2
                                  /\ d.n2 \in Children(heap, r.n3)
                                  /\ d.n3 \notin Children(heap, r.n3)
                /\ Children(heap, d.n2) = {d.n3, d.node}
                /\ d.n3 # d.node)
    /\ [][(AtRecolourRelocated /\ tasks'[MAIN] # tasks[MAIN]) =>
            LET d == Top(Machine, MAIN)
                x == NodeOf(heap', root', heap[d.n2].value)
            IN  /\ heap[d.n2].value \in ValuesIn(heap', root')
                /\ heap'[x].colour = BLACK
                /\ (heap[d.n2].parent = NULL) = (root' = x)
                /\ heap[d.n2].parent # NULL =>
                      /\ heap'[x].parent # NULL
                      /\ heap'[heap'[x].parent].value = heap[heap[d.n2].parent].value
                /\ { heap'[c].value : c \in Children(heap', x) }
                       = {heap[d.n3].value, heap[d.node].value}
                /\ \A c \in Children(heap', x) : heap'[c].colour = RED]_vars

\* An insertion whose fixup took the rotation case has returned.
C31_Witness ==
    /\ op.kind = "add" /\ op.done
    /\ tasks[MAIN] = NoTask
    /\ explanationTitle = "Recolour relocated nodes"
    /\ variant = "redBlackTree"
    /\ size >= 3

Rotations == {"rotateLeft", "rotateRight"}

\* The frames of the operation's stack that run function fn
FramesOf(fns) ==
    IF tasks[MAIN] = NoTask THEN {}
    ELSE {k \in 1..Len(tasks[MAIN].stack) : tasks[MAIN].stack[k].fn \in fns}

\* How far a call of rebalanceDifferingAntecedents has come
RankOfCase(pc) ==
    CASE pc = "entry" -> 0
      [] pc = "determined" -> 1
      [] pc = "outward" -> 2
      [] pc \in {"rotatedLeft", "rotatedRight"} -> 3
      [] pc = "reassign" -> 4
      [] pc = "about" -> 5
      [] pc = "rotated" -> 6
      [] OTHER -> 7

\* How far a call of rotateLeft or rotateRight has come
RankOfRotation(pc) ==
    CASE pc = "entry" -> 0
      [] pc = "promote" -> 1
      [] pc = "under" -> 2
      [] OTHER -> 3

\* C32: one RedBlackTree.addItem rotates at most twice.  Rotations run only
\* as the call on top of the one call of the rotation case, while that call
\* waits for its outward rotation or for its rotation about the
\* grandparent; the rotation case and each rotation only advance, so each of
\* the two is run at most once; and when the rotation case returns, the
\* fixup and addItem return with it: no further rebalance is run.
C32_AtMostTwoRotations ==
    /\ [](FramesOf({"RedBlackTree.addItem"}) # {} =>
            /\ \A t \in TaskIds \ {MAIN} : tasks[t] = NoTask
            /\ Cardinality(FramesOf({"rebalanceDifferingAntecedents"})) <= 1
            /\ \A k \in FramesOf(Rotations) :
                 /\ k = Len(tasks[MAIN].stack)
                 /\ k - 1 \in FramesOf({"rebalanceDifferingAntecedents"})
                 /\ tasks[MAIN].stack[k - 1].pc
                        \in {"rotatedLeft", "rotatedRight", "rotated"})
    /\ [][\A k \in FramesOf({"rebalanceDifferingAntecedents"}) :
            ( /\ FramesOf({"RedBlackTree.addItem"}) # {}
              /\ tasks'[MAIN] # NoTask
              /\ Len(tasks'[MAIN].stack) >= k
              /\ tasks'[MAIN].stack[k].fn = "rebalanceDifferingAntecedents" )
            => LET d == tasks[MAIN].stack[k]
                   e == tasks'[MAIN].stack[k]
               IN  /\ RankOfCase(e.pc) >= RankOfCase(d.pc)
                   /\ (e.pc = d.pc /\ Len(tasks[MAIN].stack) > k
                          /\ Len(tasks'[MAIN].stack) > k)
                      => RankOfRotation(tasks'[MAIN].stack[k + 1].pc)
                            >= RankOfRotation(tasks[MAIN].stack[k + 1].pc)]_vars
    /\ [][(AtRecolourRelocated /\ FramesOf({"RedBlackTree.addItem"}) # {}
              /\ tasks'[MAIN] # tasks[MAIN]) =>
            \/ tasks'[MAIN] = NoTask
            \/ \A k \in 1..Len(tasks'[MAIN].stack) :
                  tasks'[MAIN].stack[k].fn \notin
                      {"RedBlackTree.addItem", "rebalance",
                       "rebalanceDifferingAntecedents"} \cup Rotations]_vars

\* The second rotation of an insertion is under way: the focus was inside
\* and its parent has been rotated outward.
C32_Witness ==
    /\ AboutGrandparentRotated
    /\ Below.flag \in {"left", "right"}
    /\ FramesOf({"RedBlackTree.addItem"}) # {}

\* One insert, one remove or one traversal consumed to its end
SingleOperations == {"add", "remove", "removeAbsent", "pre", "in", "post"}

\* The operation awaits a step it issued as terminal.
AtTerminalStep ==
    /\ op.kind \in SingleOperations
    /\ tasks[MAIN] # NoTask
    /\ tasks[MAIN].wait \in {"timer", "user"}
    /\ explanationTerminal

\* C33: every insert, remove and fully consumed traversal issues exactly
\* one terminal step, and it is its last: the operation does not abort
\* before it; while the terminal step is displayed no other step of the
\* operation is outstanding; when it is resumed the operation returns
\* without issuing another; and an operation returns only from a terminal
\* step.
C33_OneTerminalStepLast ==
    /\ []((op.kind \in SingleOperations /\ tasks[MAIN] # NoTask)
            => tasks[MAIN].wait # "thrown")
    /\ [](AtTerminalStep => \A t \in TaskIds \ {MAIN} : tasks[t] = NoTask)
    /\ [][(AtTerminalStep /\ tasks'[MAIN] # tasks[MAIN])
            => op'.done /\ tasks'[MAIN] = NoTask]_vars
    /\ [][(~op.done /\ op'.done /\ op'.kind \in SingleOperations)
            => AtTerminalStep]_vars

Navigations == {"Navigate left", "Navigate right"}

\* The operation awaits a navigation step and no other call is in flight.
AtNavigation ==
    /\ tasks[MAIN] # NoTask
    /\ tasks[MAIN].wait \in {"timer", "user"}
    /\ explanationTitle \in Navigations
    /\ \A t \in TaskIds \ {MAIN} : tasks[t] = NoTask

\* The nodes the frame on top of task t refers to
TopRefs(t) ==
    {Top(Machine, t).node, Top(Machine, t).n2, Top(Machine, t).n3} \ {NULL}

Issued(titles) == Cardinality({i \in 1..Len(issued) : issued[i] \in titles})

Descents == {"Traverse left child", "Traverse right child"}

\* A traversal awaits the step of the given titles.
AtTraversalStep(titles) ==
    /\ op.kind \in Orders
    /\ tasks[MAIN] # NoTask
    /\ tasks[MAIN].wait \in {"timer", "user"}
    /\ explanationTitle \in titles

\* C35: a traversal consumed to its end has issued one 'Add current node'
\* step per node, one 'Traverse left child' or 'Traverse right child' step
\* per node other than the root, and one 'Traversal complete' step, its
\* last: 2n steps for a tree of n >= 1 nodes and one step for the empty
\* tree. Each 'Add current node' step is that of the node whose value was
\* yielded last, and each descent step is that of a child whose value has
\* not been yielded yet.
C35_TraversalSteps ==
    LET n == Cardinality(RealNodes(heap, root))
        node == Top(Machine, MAIN).node
    IN  /\ AtTraversalStep({"Add current node"})
            => /\ Issued({"Add current node"}) = Len(yielded)
               /\ yielded[Len(yielded)] = heap[node].value
        /\ AtTraversalStep({"Traverse left child"})
            => /\ ~IsNull(heap, heap[node].leftChild)
               /\ heap[heap[node].leftChild].value \notin Range(yielded)
        /\ AtTraversalStep({"Traverse right child"})
            => /\ ~IsNull(heap, heap[node].rightChild)
               /\ heap[heap[node].rightChild].value \notin Range(yielded)
        /\ (op.kind \in Orders /\ op.done)
            => /\ Issued({"Add current node"}) = n
               /\ Issued(Descents) = IF n = 0 THEN 0 ELSE n - 1
               /\ Issued({"Traversal complete"}) = 1
               /\ issued[Len(issued)] = "Traversal complete"
               /\ Len(issued) = IF n = 0 THEN 1 ELSE 2 * n

\* A traversal of a tree of four nodes has returned after eight steps.
C35_Witness ==
    /\ op.kind \in Orders /\ op.done
    /\ Cardinality(RealNodes(heap, root)) = 4
    /\ Len(issued) = 8
    /\ Len(yielded) = 4

\* An insertion into or a removal from the red-black tree is suspended at
\* one of its steps.
RedBlackSuspended ==
    /\ variant = "redBlackTree"
    /\ op.kind \in {"add", "remove"}
    /\ ~op.done
    /\ tasks[MAIN] # NoTask
    /\ tasks[MAIN].wait \in {"timer", "user"}

\* The values the tree stored when the operation began, the one being
\* removed left out
StoredValues ==
    Range(op.before) \ (IF op.kind = "remove" THEN {op.item} ELSE {})

\* C36 as stated: at every suspension point of an insertion into or a
\* removal from the red-black tree, the steps of rotateLeft and rotateRight
\* included, every value stored in the tree other than the one being removed
\* is reachable from the root through child links.
C36_StoredValuesReachable ==
    RedBlackSuspended => StoredValues \subseteq ValuesIn(heap, root)

\* The nodes being promoted by a rotation that awaits its second step,
\* 'Rotate under right child' or 'Rotate under left child': the rotated
\* node is already their child, and neither the old parent nor the root
\* refers to them yet.
Promoted ==
    UNION {{tasks[t].stack[k].n2 :
              k \in {j \in DOMAIN tasks[t].stack :
                        /\ tasks[t].stack[j].fn \in Rotations
                        /\ tasks[t].stack[j].pc = "under"}} :
           t \in TaskIds}

\* C36 amended: at every suspension point of an insertion into or a removal
\* from the red-black tree, every value stored in the tree other than the
\* one being removed is reachable through child links from the root or,
\* while a rotation awaits its second step, from the node that rotation
\* promotes; outside that step, from the root.
C36_ReachableButPromoted ==
    RedBlackSuspended =>
        StoredValues \subseteq
            ValuesIn(heap, root) \cup UNION {ValuesIn(heap, n) : n \in Promoted}

\* An insertion awaits the second step of a rotation about the root: the
\* promoted node and its other child are not reachable from the root.
C36_Witness ==
    /\ RedBlackSuspended
    /\ op.kind = "add"
    /\ Promoted # {}
    /\ Cardinality(StoredValues \ ValuesIn(heap, root)) >= 1
    /\ Top(Machine, MAIN).node = root

\* The subtree under node n is, node for node, the same in heap a as in
\* heap b, the parent link of n itself left aside.
SameSubtree(a, b, n) ==
    /\ a[n] = [b[n] EXCEPT !.parent = a[n].parent]
    /\ \A x \in RealNodes(b, n) \ {n} : a[x] = b[x]
    /\ RealNodes(a, n) = RealNodes(b, n)

\* Node c is, in tree a, where node n was in tree b: the root, or the same
\* child of the same parent.
InPositionOf(a, b, c, n) ==
    IF b.root = n
    THEN a.root = c /\ a.heap[c].parent = NULL
    ELSE LET p == b.heap[n].parent IN
         /\ a.heap[c].parent = p
         /\ p \in RealNodes(a.heap, a.root)
         /\ IF b.heap[p].leftChild = n
            THEN a.heap[p].leftChild = c
            ELSE a.heap[p].rightChild = c

\* C37: when NaiveTree.removeItem(v) has returned, b being the tree at the
\* call, a the tree at the return and n the node that held v: if n had two
\* children that hold values, n is where it was and holds the smallest
\* value greater than v, the value of the minChild of its right subtree;
\* that value occurs once in the tree; and the left subtree of n is
\* unchanged. If n had exactly one child that holds a value, that child,
\* with its whole subtree, is where n was.
C37_NaiveRemovePromotes ==
    (op.kind \in Recorded /\ op.done /\ variant = "naiveTree") =>
        LET b == op.before[1]
            a == op.before[2]
            v == op.item
            n == NodeOf(b.heap, b.root, v)
            l == b.heap[n].leftChild
            r == b.heap[n].rightChild
        IN  /\ (~IsNull(b.heap, l) /\ ~IsNull(b.heap, r)) =>
                LET s == a.heap[n].value IN
                /\ InPositionOf(a, b, n, n)
                /\ s = b.heap[minChild(b.heap, r)].value
                /\ s > v
                /\ \A x \in ValuesIn(b.heap, b.root) : x > v => s <= x
                /\ Cardinality({x \in RealNodes(a.heap, a.root) : a.heap[x].value = s}) = 1
                /\ a.heap[n].leftChild = l
                /\ SameSubtree(a.heap, b.heap, l)
                /\ a.heap[l].parent = n
            /\ (~IsNull(b.heap, l) /\ IsNull(b.heap, r)) =>
                /\ InPositionOf(a, b, l, n)
                /\ SameSubtree(a.heap, b.heap, l)
            /\ (IsNull(b.heap, l) /\ ~IsNull(b.heap, r)) =>
                /\ InPositionOf(a, b, r, n)
                /\ SameSubtree(a.heap, b.heap, r)

\* A removal from the NaiveTree of a node with two children has returned;
\* its right child had a left child, which held the value promoted.
C37_Witness ==
    /\ op.kind \in Recorded /\ op.done /\ variant = "naiveTree"
    /\ LET b == op.before[1]
           n == NodeOf(b.heap, b.root, op.item)
       IN  /\ ~IsNull(b.heap, b.heap[n].leftChild)
           /\ ~IsNull(b.heap, b.heap[n].rightChild)
           /\ minChild(b.heap, b.heap[n].rightChild) # b.heap[n].rightChild
           /\ op.before[2].heap[n].value = op.item + 1

\* A removal from the NaiveTree of a node with one child, not the root, has
\* returned.
C37_WitnessOneChild ==
    /\ op.kind \in Recorded /\ op.done /\ variant = "naiveTree"
    /\ LET b == op.before[1]
           n == NodeOf(b.heap, b.root, op.item)
       IN  /\ IsNull(b.heap, b.heap[n].leftChild) # IsNull(b.heap, b.heap[n].rightChild)
           /\ b.root # n

\* C38: whenever treeOperating is false, the items list holds exactly the
\* values stored in the current tree, each once, and its length is the
\* tree's size.
C38_ItemsAreTheTree ==
    ~treeOperating =>
        /\ Range(items) = ValuesIn(heap, root)
        /\ Len(items) = Cardinality(RealNodes(heap, root))
        /\ Len(InOrderOf(heap, root)) = Len(items)
        /\ \A i, j \in 1..Len(items) : i # j => items[i] # items[j]
        /\ Len(items) = size

====
